---------------------------- MODULE Spec2Model ----------------------------
(***************************************************************************)
(* A model of colgen: the directive parser (ParseRules), the merge and     *)
(* validation of rules, and the template code generator (Generator).       *)
(*                                                                         *)
(* Go strings are sequences of one-character strings, so that splitting,   *)
(* trimming, prefix tests, case folding and the regular expression are     *)
(* computed the way the code computes them.                                *)
(***************************************************************************)
EXTENDS Integers, Sequences, FiniteSets, TLC

(***************************************************************************)
(* Bounds of the model.                                                    *)
(***************************************************************************)
\* longest list of directive lines handed to ParseRules
MaxLines == 2
\* longest line of the exhaustive small-alphabet lines
MaxLineLen == 3
\* number of Generate calls on one Generator
MaxGenerate == 2

\* the length of the collections given to the generated methods
MaxElems == 3

\* the field values are 1..MaxValue
MaxValue == 2

\* the length of the values of a slice field
MaxSlice == 2

\* the elements of the values of a slice field are 1..MaxSliceValue
MaxSliceValue == 2

\* the length of the collections given to the methods on a slice field
MaxSliceElems == 2

\* the number of slice elements in such a collection, all its slices together
MaxItems == 3

\* the number of different contents of the other fields of an element
MaxRest == 2

\* a file has at most MaxFileLines lines
MaxFileLines == 2

\* the exhaustive short directives have at most MaxTail characters after New
MaxTail == 4

\* the lines of a source file after its package clause
MaxSourceLines == 2

(***************************************************************************)
(* Characters and the strings package.                                     *)
(***************************************************************************)
\* the characters of the model in ascending byte order
AsciiOrder ==
  << "\t", " ", "(", ")", "*", ",", ".", "/",
     "0", "1", "2", "3", "4", "5", "6", "7", "8", "9", ":",
     "A", "B", "C", "D", "E", "F", "G", "H", "I", "J", "K", "L", "M",
     "N", "O", "P", "Q", "R", "S", "T", "U", "V", "W", "X", "Y", "Z",
     "[", "]", "_",
     "a", "b", "c", "d", "e", "f", "g", "h", "i", "j", "k", "l", "m",
     "n", "o", "p", "q", "r", "s", "t", "u", "v", "w", "x", "y", "z" >>

UpperChars ==
  << "A", "B", "C", "D", "E", "F", "G", "H", "I", "J", "K", "L", "M",
     "N", "O", "P", "Q", "R", "S", "T", "U", "V", "W", "X", "Y", "Z" >>

LowerChars ==
  << "a", "b", "c", "d", "e", "f", "g", "h", "i", "j", "k", "l", "m",
     "n", "o", "p", "q", "r", "s", "t", "u", "v", "w", "x", "y", "z" >>

Range(s) == { s[i] : i \in DOMAIN s }

\* byte value order of a character
Ord(c) == CHOOSE i \in DOMAIN AsciiOrder : AsciiOrder[i] = c

IsUpper(c) == c \in Range(UpperChars)

IsLower(c) == c \in Range(LowerChars)

\* unicode.ToLower on one character
RuneToLower(c) ==
  IF IsUpper(c)
  THEN LowerChars[CHOOSE i \in DOMAIN UpperChars : UpperChars[i] = c]
  ELSE c

\* unicode.ToUpper on one character
RuneToUpper(c) ==
  IF IsLower(c)
  THEN UpperChars[CHOOSE i \in DOMAIN LowerChars : LowerChars[i] = c]
  ELSE c

\* strings.ToLower
ToLower(s) == [i \in DOMAIN s |-> RuneToLower(s[i])]

IsDigit(c) == c \in {"0", "1", "2", "3", "4", "5", "6", "7", "8", "9"}

\* the regexp class \w
IsWordChar(c) == IsUpper(c) \/ IsLower(c) \/ IsDigit(c) \/ c = "_"

\* unicode.IsSpace, as used by strings.TrimSpace
IsSpace(c) == c \in {" ", "\t"}

\* strings.Contains for a one-character pattern
Contains(s, c) == \E i \in DOMAIN s : s[i] = c

\* strings.HasPrefix
HasPrefix(s, p) == Len(s) >= Len(p) /\ SubSeq(s, 1, Len(p)) = p

\* strings.HasSuffix
HasSuffix(s, p) == Len(s) >= Len(p) /\ SubSeq(s, Len(s) - Len(p) + 1, Len(s)) = p

\* strings.TrimPrefix
TrimPrefix(s, p) == IF HasPrefix(s, p) THEN SubSeq(s, Len(p) + 1, Len(s)) ELSE s

\* strings.TrimSpace
TrimSpace(s) ==
  LET keep == { i \in DOMAIN s : ~IsSpace(s[i]) }
  IN  IF keep = {} THEN << >>
      ELSE LET lo == CHOOSE i \in keep : \A j \in keep : i <= j
               hi == CHOOSE i \in keep : \A j \in keep : j <= i
           IN  SubSeq(s, lo, hi)

\* strings.Split for a one-character separator
RECURSIVE Split(_, _)
Split(s, c) ==
  IF ~Contains(s, c) THEN << s >>
  ELSE LET i == CHOOSE k \in DOMAIN s : s[k] = c /\ \A j \in 1..(k - 1) : s[j] # c
       IN  << SubSeq(s, 1, i - 1) >> \o Split(SubSeq(s, i + 1, Len(s)), c)

\* strings.Compare(a, b) < 0
RECURSIVE StrLess(_, _)
StrLess(a, b) ==
  IF b = << >> THEN FALSE
  ELSE IF a = << >> THEN TRUE
  ELSE IF a[1] # b[1] THEN Ord(a[1]) < Ord(b[1])
  ELSE StrLess(Tail(a), Tail(b))

\* concatenation of a sequence of strings
RECURSIVE Concat(_)
Concat(ss) == IF ss = << >> THEN << >> ELSE Head(ss) \o Concat(Tail(ss))

(***************************************************************************)
(* Constants of generator.go.                                              *)
(***************************************************************************)
CustomRuleUnique == << "U", "n", "i", "q", "u", "e" >>

CustomRuleMap == << "M", "a", "p" >>

CustomRuleMapP == << "M", "a", "p", "P" >>

CustomRuleIndex == << "I", "n", "d", "e", "x" >>

FieldID == << "I", "D" >>

ErrUnknownLine == "unknown line"

ErrMissingArg == "missing arg"

ErrMissingType == "missing type"

ErrMissingField == "missing field"

ErrMissingEntity == "missing main entity"

\* a nil error
NoErr == [kind |-> "nil", msg |-> << >>]

\* fmt.Errorf("%w: ...", sentinel, details...): the sentinel and the texts
\* the message names, outermost last
NewErr(kind, details) == [kind |-> kind, msg |-> details]

\* fmt.Errorf("%w: %q", err, detail)
WrapErr(err, detail) == [kind |-> err.kind, msg |-> err.msg \o << detail >>]

\* the zero CustomRule
ZeroCustomRule == [Name |-> << >>, Field |-> << >>, Arg |-> << >>]

(***************************************************************************)
(* The directive grammar.                                                  *)
(***************************************************************************)
\* isMapP: Map/MapP in any casing
isMapP(s) == ToLower(s) = ToLower(CustomRuleMap) \/ ToLower(s) = ToLower(CustomRuleMapP)

\* reNameArg.FindStringSubmatch(l): << whole, name, arg >> or << >>.
\* A rule spec holds no newline, so ^ and $ anchor the whole string.
reNameArg(l) ==
  IF ~Contains(l, "(") THEN << >>
  ELSE LET i == CHOOSE k \in DOMAIN l : l[k] = "(" /\ \A j \in 1..(k - 1) : l[j] # "("
           name == SubSeq(l, 1, i - 1)
           arg == SubSeq(l, i + 1, Len(l) - 1)
       IN  IF /\ name # << >>
              /\ \A j \in DOMAIN name : IsWordChar(name[j])
              /\ l[Len(l)] = ")"
              /\ arg # << >>
              /\ \A j \in DOMAIN arg : IsWordChar(arg[j]) \/ arg[j] = "."
           THEN << l, name, arg >>
           ELSE << >>

\* ruleOfNameArg that refuses a Unique spec without a field name
ruleOfNameArg_UniqueNeedsField(l, name, arg) ==
  IF name = CustomRuleUnique
  THEN [cr |-> ZeroCustomRule, err |-> NewErr(ErrMissingArg, << l >>)]
  ELSE IF HasPrefix(name, CustomRuleUnique)
  THEN [cr |-> [Name |-> CustomRuleUnique,
                Field |-> TrimPrefix(name, CustomRuleUnique),
                Arg |-> << >>],
        err |-> NoErr]
  ELSE IF isMapP(name)
  THEN IF arg = << >>
       THEN [cr |-> ZeroCustomRule, err |-> NewErr(ErrMissingArg, << l >>)]
       ELSE [cr |-> [Name |-> name, Field |-> << >>, Arg |-> arg], err |-> NoErr]
  ELSE IF name = CustomRuleIndex
  THEN IF arg = << >>
       THEN [cr |-> ZeroCustomRule, err |-> NewErr(ErrMissingArg, << l >>)]
       ELSE [cr |-> [Name |-> name, Field |-> arg, Arg |-> << >>], err |-> NoErr]
  ELSE [cr |-> [Name |-> << >>, Field |-> name, Arg |-> << >>], err |-> NoErr]

\* ruleOfNameArg with the name of a converter rule stored in lower case
ruleOfNameArg_LowerName(l, name, arg) ==
  IF HasPrefix(name, CustomRuleUnique)
  THEN [cr |-> [Name |-> CustomRuleUnique,
                Field |-> TrimPrefix(name, CustomRuleUnique),
                Arg |-> << >>],
        err |-> NoErr]
  ELSE IF isMapP(name)
  THEN IF arg = << >>
       THEN [cr |-> ZeroCustomRule, err |-> NewErr(ErrMissingArg, << l >>)]
       ELSE [cr |-> [Name |-> ToLower(name), Field |-> << >>, Arg |-> arg], err |-> NoErr]
  ELSE IF name = CustomRuleIndex
  THEN IF arg = << >>
       THEN [cr |-> ZeroCustomRule, err |-> NewErr(ErrMissingArg, << l >>)]
       ELSE [cr |-> [Name |-> name, Field |-> arg, Arg |-> << >>], err |-> NoErr]
  ELSE [cr |-> [Name |-> << >>, Field |-> name, Arg |-> << >>], err |-> NoErr]

\* the switch of parseCustomRule on the name and the argument of rule spec l:
\* the CustomRule, or the error
ruleOfNameArg(l, name, arg) ==
  IF HasPrefix(name, CustomRuleUnique)
  THEN [cr |-> [Name |-> CustomRuleUnique,
                Field |-> TrimPrefix(name, CustomRuleUnique),
                Arg |-> << >>],
        err |-> NoErr]
  ELSE IF isMapP(name)
  THEN IF arg = << >>
       THEN [cr |-> ZeroCustomRule, err |-> NewErr(ErrMissingArg, << l >>)]
       ELSE [cr |-> [Name |-> name, Field |-> << >>, Arg |-> arg], err |-> NoErr]
  ELSE IF name = CustomRuleIndex
  THEN IF arg = << >>
       THEN [cr |-> ZeroCustomRule, err |-> NewErr(ErrMissingArg, << l >>)]
       ELSE [cr |-> [Name |-> name, Field |-> arg, Arg |-> << >>], err |-> NoErr]
  ELSE [cr |-> [Name |-> << >>, Field |-> name, Arg |-> << >>], err |-> NoErr]

\* `name, arg := l, ""`, replaced by the submatches when the regexp matched
ruleOfMatches(l, matches) ==
  ruleOfNameArg(l,
                IF Len(matches) = 3 THEN matches[2] ELSE l,
                IF Len(matches) = 3 THEN matches[3] ELSE << >>)

\* the body of the loop of parseCustomRule for one rule spec l
parseRuleSpec(l) == ruleOfMatches(l, reNameArg(l))

\* the loop of parseCustomRule over the rule specs: the custom rules
\* collected, or the first error
RECURSIVE parseRuleSpecs(_, _)
appendRuleSpec(specs, acc, r) ==
  IF r.err # NoErr THEN [crs |-> << >>, err |-> r.err]
  ELSE parseRuleSpecs(Tail(specs), Append(acc, r.cr))

parseRuleSpecs(specs, acc) ==
  IF specs = << >> THEN [crs |-> acc, err |-> NoErr]
  ELSE appendRuleSpec(specs, acc, parseRuleSpec(Head(specs)))

\* the end of parseCustomRule: the one Rule of entity name with the custom
\* rules r.crs, or the error r.err
customRuleOf(name, r) ==
  IF r.err # NoErr THEN [rules |-> << >>, err |-> r.err]
  ELSE [rules |-> << [EntityName |-> name, BaseGen |-> FALSE,
                      UseListSuffix |-> FALSE, CustomRules |-> r.crs] >>,
        err |-> NoErr]

\* parseCustomParts that takes the first two of any number of parts
parseCustomParts_FirstTwo(line, ll) ==
  IF Len(ll) < 2
  THEN [rules |-> << >>, err |-> NewErr(ErrUnknownLine, << line >>)]
  ELSE customRuleOf(ll[1], parseRuleSpecs(Split(ll[2], ","), << >>))

\* parseCustomRule, given ll = strings.Split(line, ":")
parseCustomParts(line, ll) ==
  IF Len(ll) # 2
  THEN [rules |-> << >>, err |-> NewErr(ErrUnknownLine, << line >>)]
  ELSE customRuleOf(ll[1], parseRuleSpecs(Split(ll[2], ","), << >>))

\* parseCustomRule
parseCustomRule(line) == parseCustomParts(line, Split(line, ":"))

\* entitiesOf without `BaseGen: true`
entitiesOf_NoBaseGen(ll) ==
  [rules |-> [i \in DOMAIN ll |->
                [EntityName |-> ll[i], BaseGen |-> FALSE,
                 UseListSuffix |-> FALSE, CustomRules |-> << >>]],
   err |-> NoErr]

\* parseEntities, given ll = strings.Split(line, ",")
entitiesOf(ll) ==
  [rules |-> [i \in DOMAIN ll |->
                [EntityName |-> ll[i], BaseGen |-> TRUE,
                 UseListSuffix |-> FALSE, CustomRules |-> << >>]],
   err |-> NoErr]

\* parseEntities that leaves out the empty pieces of the line
parseEntities_NonEmpty(line) ==
  entitiesOf(SelectSeq(Split(line, ","), LAMBDA s : s # << >>))

\* parseEntities
parseEntities(line) == entitiesOf(Split(line, ","))

\* ParseRules's `if err != nil { return nil, fmt.Errorf("%w: %q", err, line) }`
wrapLine(r, line) ==
  IF r.err # NoErr THEN [rules |-> << >>, err |-> WrapErr(r.err, line)] ELSE r

\* parseLine with the entity-list case tested before the custom-rule case
parseLine_ListFirst(line) ==
  IF Contains(line, ",") \/ ~Contains(line, " ") THEN wrapLine(parseEntities(line), line)
  ELSE IF Contains(line, ":") THEN wrapLine(parseCustomRule(line), line)
  ELSE [rules |-> << >>, err |-> NewErr(ErrUnknownLine, << line >>)]

\* the switch of ParseRules on one trimmed, non-empty line, with the error
\* check that follows it
parseLine(line) ==
  IF Contains(line, ":") THEN wrapLine(parseCustomRule(line), line)
  ELSE IF Contains(line, ",") \/ ~Contains(line, " ") THEN wrapLine(parseEntities(line), line)
  ELSE [rules |-> << >>, err |-> NewErr(ErrUnknownLine, << line >>)]

\* the loop of ParseRules: the rules of all lines in order, or the first error
RECURSIVE parseLines(_, _)
appendLine(lines, result, r) ==
  IF r.err # NoErr THEN [rules |-> << >>, err |-> r.err]
  ELSE parseLines(Tail(lines), result \o r.rules)

parseTrimmed(lines, result, line) ==
  IF line = << >> THEN parseLines(Tail(lines), result)
  ELSE appendLine(lines, result, parseLine(line))

parseLines(lines, result) ==
  IF lines = << >> THEN [rules |-> result, err |-> NoErr]
  ELSE parseTrimmed(lines, result, TrimSpace(Head(lines)))

(***************************************************************************)
(* Merge and validation.                                                   *)
(***************************************************************************)
\* mergeRule that lets a base line count only when it is the first line of
\* its entity
mergeRule_BaseFirstOnly(r, idx) ==
  IF r.EntityName \notin DOMAIN idx THEN r
  ELSE IF Len(r.CustomRules) = 0
       THEN idx[r.EntityName]
       ELSE [idx[r.EntityName] EXCEPT
               !.CustomRules = idx[r.EntityName].CustomRules \o r.CustomRules]

\* mergeRule that takes BaseGen from the later lines of an entity only
mergeRule_LaterBaseOnly(r, idx) ==
  IF r.EntityName \notin DOMAIN idx THEN [r EXCEPT !.BaseGen = FALSE]
  ELSE IF Len(r.CustomRules) = 0
       THEN [idx[r.EntityName] EXCEPT !.BaseGen = TRUE]
       ELSE [idx[r.EntityName] EXCEPT
               !.CustomRules = idx[r.EntityName].CustomRules \o r.CustomRules]

\* mergeRule with the later custom rules put in front of the existing ones
mergeRule_Prepend(r, idx) ==
  IF r.EntityName \notin DOMAIN idx THEN r
  ELSE IF Len(r.CustomRules) = 0
       THEN [idx[r.EntityName] EXCEPT !.BaseGen = TRUE]
       ELSE [idx[r.EntityName] EXCEPT
               !.CustomRules = r.CustomRules \o idx[r.EntityName].CustomRules]

\* the body of the first loop of mergeRules for rule r: the entry of its entity
mergeRule(r, idx) ==
  IF r.EntityName \notin DOMAIN idx THEN r
  ELSE IF Len(r.CustomRules) = 0
       THEN [idx[r.EntityName] EXCEPT !.BaseGen = TRUE]
       ELSE [idx[r.EntityName] EXCEPT
               !.CustomRules = idx[r.EntityName].CustomRules \o r.CustomRules]

\* idx[n] = merged
setIdx(idx, n, merged) ==
  [m \in DOMAIN idx \cup {n} |-> IF m = n THEN merged ELSE idx[m]]

\* the first loop of mergeRules: idx maps an entity name to its merged Rule
RECURSIVE mergeIdx(_, _, _)
mergeInto(rules, useListSuffix, idx, r) ==
  mergeIdx(Tail(rules), useListSuffix, setIdx(idx, r.EntityName, mergeRule(r, idx)))

mergeIdx(rules, useListSuffix, idx) ==
  IF rules = << >> THEN idx
  ELSE mergeInto(rules, useListSuffix, idx,
                 [Head(rules) EXCEPT !.UseListSuffix = useListSuffix])

\* minName with the comparison the wrong way round
minName_Greatest(idx) == CHOOSE m \in DOMAIN idx : \A k \in DOMAIN idx : k = m \/ StrLess(k, m)

\* the least key of idx by strings.Compare
minName(idx) == CHOOSE m \in DOMAIN idx : \A k \in DOMAIN idx : k = m \/ StrLess(m, k)

\* slices.SortFunc by strings.Compare on EntityName, over the values of idx
\* (the keys are distinct, so the order of the map iteration is immaterial)
RECURSIVE sortedRules(_)
sortedFrom(idx, n) == << idx[n] >> \o sortedRules([m \in DOMAIN idx \ {n} |-> idx[m]])

sortedRules(idx) == IF DOMAIN idx = {} THEN << >> ELSE sortedFrom(idx, minName(idx))

\* mergeRules
mergeRules(rules, useListSuffix) == sortedRules(mergeIdx(rules, useListSuffix, << >>))

\* notMapP with a case-sensitive test for Map and MapP
notMapP_CaseSensitive(r) ==
  { j \in DOMAIN r.CustomRules : r.CustomRules[j].Name \notin { CustomRuleMap, CustomRuleMapP } }

\* the inner loop of validateRules on rule r: the positions of the custom
\* rules that are not converters
notMapP(r) == { j \in DOMAIN r.CustomRules : ~isMapP(r.CustomRules[j].Name) }

\* validateRules: the error of the first custom rule, in rule order, that is
\* not a converter and belongs to a rule without base generation
RECURSIVE validateRules(_)
validateRule(rules, r, bad) ==
  IF ~r.BaseGen /\ bad # {}
  THEN NewErr(ErrMissingEntity,
              << r.EntityName,
                 r.CustomRules[CHOOSE m \in bad : \A k \in bad : m <= k].Name >>)
  ELSE validateRules(Tail(rules))

validateRules(rules) ==
  IF rules = << >> THEN NoErr
  ELSE validateRule(rules, Head(rules), notMapP(Head(rules)))

\* the end of ParseRules: `return merged, validateRules(merged)`
mergedResult(result, merged) ==
  [rules |-> merged, err |-> validateRules(merged), result |-> result]

\* ParseRules after its loop returned p
parsedResult(p, useListSuffix) ==
  IF p.err # NoErr THEN [rules |-> << >>, err |-> p.err, result |-> << >>]
  ELSE mergedResult(p.rules, mergeRules(p.rules, useListSuffix))

\* ParseRules: what it returns, and its local `result`
ParseRules(lines, useListSuffix) == parsedResult(parseLines(lines, << >>), useListSuffix)

(***************************************************************************)
(* go/types: the types the introspector hands to the field model.          *)
(***************************************************************************)
\* a predeclared type such as int
BasicT(name) == [k |-> "basic", name |-> name]

\* a defined type of package path pkg, with its underlying type
NamedT(pkg, name, und) == [k |-> "named", pkg |-> pkg, name |-> name, und |-> und]

PointerT(elem) == [k |-> "ptr", elem |-> elem]

SliceT(elem) == [k |-> "slice", elem |-> elem]

StructT(fields) == [k |-> "struct", fields |-> fields]

\* a named field and an embedded field of a struct
FieldV(name, typ) == [Name |-> name, Type |-> typ, Embedded |-> FALSE]

EmbeddedV(name, typ) == [Name |-> name, Type |-> typ, Embedded |-> TRUE]

\* the absent types.Object (Scope.Lookup found nothing, or no package loaded)
NilObj == [k |-> "nil"]

\* types.Type.String(): named types are qualified by their full package path
RECURSIVE TypeString(_)
TypeString(t) ==
  CASE t.k = "basic" -> t.name
    [] t.k = "named" -> t.pkg \o << "." >> \o t.name
    [] t.k = "ptr" -> << "*" >> \o TypeString(t.elem)
    [] t.k = "slice" -> << "[", "]" >> \o TypeString(t.elem)
    [] t.k = "struct" -> << "s", "t", "r", "u", "c", "t" >>

\* types.Var.Exported(): the name starts with an upper-case letter
IsExported(name) == name # << >> /\ IsUpper(name[1])

\* path.Base
PathBase(s) ==
  IF s = << >> THEN << "." >>
  ELSE LET keep == { i \in DOMAIN s : s[i] # "/" }
       IN  IF keep = {} THEN << "/" >>
           ELSE LET hi == CHOOSE i \in keep : \A j \in keep : j <= i
                    t == SubSeq(s, 1, hi)
                    sl == { i \in DOMAIN t : t[i] = "/" }
                IN  IF sl = {} THEN t
                    ELSE SubSeq(t, (CHOOSE i \in sl : \A j \in sl : j <= i) + 1, Len(t))

(***************************************************************************)
(* The field model adapter.                                                *)
(***************************************************************************)
\* the entityField appended for a field that is not embedded
entityFieldOf(f, indentLevel) ==
  [Name |-> f.Name, Type |-> TypeString(f.Type), FullType |-> << >>,
   IsExported |-> IsExported(f.Name), Level |-> indentLevel]

\* `if ptr, ok := typ.(*types.Pointer); ok { typ = ptr.Elem() }`
derefPointer(typ) == IF typ.k = "ptr" THEN typ.elem ELSE typ

\* `if named, ok := typ.(*types.Named); ok { typ = named.Underlying() }`
underlying(typ) == IF typ.k = "named" THEN typ.und ELSE typ

\* fillStructTypes: the entityFields appended for typ at the given level
RECURSIVE fillStructTypes(_, _)
RECURSIVE fillFields(_, _)
fillField(f, indentLevel) ==
  IF f.Embedded THEN fillStructTypes(f.Type, indentLevel + 1)
  ELSE << entityFieldOf(f, indentLevel) >>

fillFields(ff, indentLevel) ==
  IF ff = << >> THEN << >>
  ELSE fillField(Head(ff), indentLevel) \o fillFields(Tail(ff), indentLevel)

fillStruct(typ, indentLevel) ==
  IF typ.k = "struct" THEN fillFields(typ.fields, indentLevel) ELSE << >>

fillStructTypes(typ, indentLevel) == fillStruct(underlying(derefPointer(typ)), indentLevel)

\* the second loop of typeSliceFromType: FullType keeps the type, Type its
\* path.Base
baseTypes(eTypes) ==
  [i \in DOMAIN eTypes |->
     [eTypes[i] EXCEPT !.FullType = eTypes[i].Type, !.Type = PathBase(eTypes[i].Type)]]

\* typeSliceFromType
typeSliceFromType(t) ==
  IF t.k = "nil" THEN << >> ELSE baseTypes(fillStructTypes(t, 0))

\* the loop of typeMapFromType: a later field of the same name wins
typeMapOf(eTypes) ==
  [n \in { eTypes[i].Name : i \in DOMAIN eTypes } |->
     eTypes[CHOOSE i \in DOMAIN eTypes :
              /\ eTypes[i].Name = n
              /\ \A j \in DOMAIN eTypes : eTypes[j].Name = n => j <= i].Type]

\* typeMapFromType: field name => type
typeMapFromType(t) == typeMapOf(typeSliceFromType(t))

\* Generator.lookupType on the loaded package pkg (NilPkg when none is loaded)
NilPkg == [path |-> << >>, scope |-> << >>, loaded |-> FALSE]

lookupType(pkg, s) ==
  IF ~pkg.loaded THEN NilObj
  ELSE IF s \in DOMAIN pkg.scope THEN pkg.scope[s] ELSE NilObj

(***************************************************************************)
(* The template code generator.  The buffer is the sequence of the pieces  *)
(* written to it: one piece per P, L or T call, with the values that the   *)
(* format or the template substitutes.                                     *)
(***************************************************************************)
\* inflection.Plural on the words of the model: a word ending in s is left
\* alone, an all-capitals word gets S, any other word gets s
Plural(w) ==
  IF w = << >> THEN w
  ELSE IF RuneToLower(w[Len(w)]) = "s" THEN w
  ELSE IF \A i \in DOMAIN w : IsUpper(w[i]) THEN Append(w, "S")
  ELSE Append(w, "s")

\* lastRuneToLower
lastRuneToLower(s) ==
  IF Len(s) = 0 THEN s
  ELSE [s EXCEPT ![Len(s)] = RuneToLower(s[Len(s)])]

\* firsRuneToLower
firsRuneToLower(s) ==
  IF Len(s) = 0 THEN s
  ELSE [s EXCEPT ![1] = RuneToLower(s[1])]

ListSuffix == << "L", "i", "s", "t" >>

\* NewEntity
NewEntity(name, useList) ==
  LET pl == IF ~useList THEN Plural(name) ELSE << >>
  IN  [Name |-> name,
       List |-> IF ~useList /\ pl # name THEN pl ELSE name \o ListSuffix]

\* one piece of the buffer
Piece(kind, args) == [k |-> kind, a |-> args]

\* Generator.L
NL == Piece("nl", << >>)

\* genHead: the header comment, the package clause and the imports
genHead(pkgName, imports) ==
  << Piece("comment", << >>), NL, Piece("package", << pkgName >>), NL, NL >>
  \o (IF Len(imports) > 0
      THEN << Piece("import(", << >>), NL >>
           \o Concat([i \in DOMAIN imports |-> << Piece("import", << imports[i] >>), NL >>])
           \o << Piece(")", << >>) >>
      ELSE << >>)

\* genType
genType(e) == << Piece("type", << e.List, e.Name >>) >>

\* the method name of a collector of fieldName
funcNameOf(fieldName) == lastRuneToLower(Plural(fieldName))

\* genField: func (ll List) FuncName() []FieldType, collecting FieldName
genField(fieldType, fieldName, e) ==
  << Piece("field", << e.List, funcNameOf(fieldName), fieldType, fieldName >>) >>

\* genIndex: func (ll List) Index<FuncName>() map[FieldType]Name keyed by FieldName
genIndex(fieldType, fieldName, funcName, e) ==
  << Piece("index", << e.List, funcName, fieldType, e.Name, fieldName >>) >>

\* genUniqueField
genUniqueField(fieldType, fieldName, e) ==
  << Piece("unique", << e.List, funcNameOf(fieldName), fieldType, fieldName >>) >>

\* genUniqueFieldSlice
genUniqueFieldSlice(fieldType, fieldName, e) ==
  << Piece("uniqueSlice", << e.List, funcNameOf(fieldName), fieldType, fieldName >>) >>

StrNew == << "N", "e", "w" >>

\* genMap that returns the collection type whether or not it is declared
genMap_AlwaysList(method, fieldType, e, isLower, hasType, funcPkgName) ==
  LET cmd == IF isLower THEN ToLower(StrNew) ELSE StrNew
      inputType == IF ~Contains(fieldType, ".") THEN fieldType \o << "." >> \o e.Name
                   ELSE fieldType
      m == IF funcPkgName # << >> THEN funcPkgName \o << "." >> \o method ELSE method
  IN  << NL, Piece("map", << cmd, e.List, inputType, e.List, m, e.Name >>), NL >>

\* genMap: func <New|new><List>(in []inputType) returnType
\*            { return method(in, <New|new><Name>) }
genMap(method, fieldType, e, isLower, hasType, funcPkgName) ==
  LET cmd == IF isLower THEN ToLower(StrNew) ELSE StrNew
      returnType == IF ~hasType THEN << "[", "]" >> \o e.Name ELSE e.List
      inputType == IF ~Contains(fieldType, ".") THEN fieldType \o << "." >> \o e.Name
                   ELSE fieldType
      m == IF funcPkgName # << >> THEN funcPkgName \o << "." >> \o method ELSE method
  IN  << NL, Piece("map", << cmd, e.List, inputType, returnType, m, e.Name >>), NL >>

\* the switch of generateByRule on one custom rule of field type fType: the
\* pieces it writes
genCustomOf(cr, fType, e, baseGen, funcPkgName) ==
  CASE cr.Name = CustomRuleMap \/ cr.Name = CustomRuleMapP ->
         genMap(cr.Name, cr.Arg, e, FALSE, baseGen, funcPkgName)
    [] cr.Name = ToLower(CustomRuleMap) ->
         genMap(CustomRuleMap, cr.Arg, e, TRUE, baseGen, funcPkgName)
    [] cr.Name = ToLower(CustomRuleMapP) ->
         genMap(CustomRuleMapP, cr.Arg, e, TRUE, baseGen, funcPkgName)
    [] cr.Name = CustomRuleUnique ->
         IF HasPrefix(fType, << "[", "]" >>)
         THEN genUniqueFieldSlice(TrimPrefix(fType, << "[", "]" >>), cr.Field, e)
         ELSE genUniqueField(fType, cr.Field, e)
    [] cr.Name = CustomRuleIndex ->
         genIndex(fType, cr.Field, << "B", "y" >> \o cr.Field, e)
    [] cr.Name = << >> ->
         genField(fType, cr.Field, e)
    [] OTHER -> << >>

\* `fType, hasF := fields[cr.Field]` and the switch
genCustomRule(cr, fields, e, baseGen, funcPkgName) ==
  genCustomOf(cr, IF cr.Field \in DOMAIN fields THEN fields[cr.Field] ELSE << >>,
              e, baseGen, funcPkgName)

\* missingField that checks plain field collectors only
missingField_PlainOnly(cr, fields) == cr.Field \notin DOMAIN fields /\ cr.Name = << >>

\* the check that ends the body of the custom rule loop
missingField(cr, fields) == cr.Field \notin DOMAIN fields /\ ~isMapP(cr.Name)

\* the custom rule loop of generateByRule: the pieces written, and the error
\* that stopped it
RECURSIVE genCustomRules(_, _, _, _, _)
prependOut(o, rest) == [out |-> o \o rest.out, err |-> rest.err]

genCustomRules(crs, fields, e, baseGen, funcPkgName) ==
  IF crs = << >> THEN [out |-> << >>, err |-> NoErr]
  ELSE IF missingField(Head(crs), fields)
  THEN [out |-> genCustomRule(Head(crs), fields, e, baseGen, funcPkgName) \o << NL >>,
        err |-> NewErr(ErrMissingField, << Head(crs).Field >>)]
  ELSE prependOut(genCustomRule(Head(crs), fields, e, baseGen, funcPkgName) \o << NL >>,
                  genCustomRules(Tail(crs), fields, e, baseGen, funcPkgName))

\* the base generation of generateByRule
genBaseID(idType, e) ==
  << NL >> \o genField(idType, FieldID, e) \o << NL >>
  \o genIndex(idType, FieldID, << >>, e) \o << NL >>

\* genBaseOf without the test for the ID field
genBaseOf_NoIDCheck(fields, e) ==
  genType(e) \o << NL >>
  \o genBaseID(IF FieldID \in DOMAIN fields THEN fields[FieldID] ELSE << >>, e)

genBaseOf(fields, e) ==
  genType(e) \o << NL >>
  \o (IF FieldID \in DOMAIN fields THEN genBaseID(fields[FieldID], e) ELSE << >>)

genBase(rule, fields, e) == IF rule.BaseGen THEN genBaseOf(fields, e) ELSE << >>

\* generateByRule for the field map fields and the entity e
generateFor(rule, fields, e, funcPkgName) ==
  IF DOMAIN fields = {}
  THEN [out |-> << >>, err |-> NewErr(ErrMissingType, << rule.EntityName >>)]
  ELSE prependOut(genBase(rule, fields, e),
                  genCustomRules(rule.CustomRules, fields, e, rule.BaseGen, funcPkgName))

\* generateByRule: the pieces appended to the buffer and the error returned
generateByRule(rule, pkg, funcPkgName) ==
  generateFor(rule, typeMapFromType(lookupType(pkg, rule.EntityName)),
              NewEntity(rule.EntityName, rule.UseListSuffix), funcPkgName)

\* the loop of Generate: the pieces appended, and the error of the rule that
\* stopped it, wrapped with the name of its entity
RECURSIVE generateRules(_, _, _)
\* generateNext that skips a rule that failed and goes on with the next
generateNext_Skip(rules, pkg, funcPkgName, r) ==
  prependOut(r.out, generateRules(Tail(rules), pkg, funcPkgName))

generateNext(rules, pkg, funcPkgName, r) ==
  IF r.err # NoErr
  THEN [out |-> r.out, err |-> WrapErr(r.err, Head(rules).EntityName)]
  ELSE prependOut(r.out, generateRules(Tail(rules), pkg, funcPkgName))

generateRules(rules, pkg, funcPkgName) ==
  IF rules = << >> THEN [out |-> << >>, err |-> NoErr]
  ELSE generateNext(rules, pkg, funcPkgName, generateByRule(Head(rules), pkg, funcPkgName))

\* generateInto on a buffer that Generate resets first
generateInto_Reset(b, head, r) == [buf |-> head \o << NL >> \o r.out, err |-> r.err]

\* Generate: genHead, a new line and the loop; the buffer afterwards and the
\* error of the loop
generateInto(b, head, r) == [buf |-> b \o head \o << NL >> \o r.out, err |-> r.err]

(***************************************************************************)
(* The generated methods.  A piece "field", "index", "unique" or           *)
(* "uniqueSlice" is a Go method over the collection ll; an element of ll   *)
(* is a function from the field names of the entity to values, a Go map is *)
(* a function from its keys.                                               *)
(***************************************************************************)
\* fieldMethod that fills r from its end
fieldMethod_Reversed(ll, F) == [i \in 1..Len(ll) |-> ll[Len(ll) + 1 - i][F]]

\* the body of the method of genField:
\*   r := make([]T, len(ll)); for i := range ll { r[i] = ll[i].F }; return r
fieldMethod(ll, F) == [i \in 1..Len(ll) |-> ll[i][F]]

\* mapPut that keeps the value of a key already present
mapPut_KeepFirst(r, k, v) ==
  [x \in DOMAIN r \cup {k} |-> IF x \in DOMAIN r THEN r[x] ELSE v]

\* r[k] = v on the map r
mapPut(r, k, v) == [x \in DOMAIN r \cup {k} |-> IF x = k THEN v ELSE r[x]]

\* the loop of the method of genIndex from position i on:
\*   for i := range ll { r[ll[i].F] = ll[i] }
RECURSIVE indexLoop(_, _, _, _)
indexLoop(ll, F, i, r) ==
  IF i > Len(ll) THEN r
  ELSE indexLoop(ll, F, i + 1, mapPut(r, ll[i][F], ll[i]))

\* the method of genIndex: r := make(map[T]E, len(ll)), the loop, return r
indexMethod(ll, F) == indexLoop(ll, F, 1, << >>)

\* uniqueAdd that deletes a key already present
uniqueAdd_Toggle(idx, v) == IF v \in idx THEN idx \ {v} ELSE idx \cup {v}

\* `if _, ok := idx[v]; !ok { idx[v] = struct{}{} }` on the keys idx of the
\* map idx
uniqueAdd(idx, v) == IF v \in idx THEN idx ELSE idx \cup {v}

\* the first loop of the method of genUniqueField from position i on
RECURSIVE uniqueLoop(_, _, _, _)
uniqueLoop(ll, F, i, idx) ==
  IF i > Len(ll) THEN idx
  ELSE uniqueLoop(ll, F, i + 1, uniqueAdd(idx, ll[i][F]))

\* the inner loop of the method of genUniqueFieldSlice over the slice vs
RECURSIVE uniqueInner(_, _, _)
uniqueInner(vs, j, idx) ==
  IF j > Len(vs) THEN idx
  ELSE uniqueInner(vs, j + 1, uniqueAdd(idx, vs[j]))

\* the outer loop of the method of genUniqueFieldSlice from position i on
RECURSIVE uniqueSliceLoop(_, _, _, _)
uniqueSliceLoop(ll, F, i, idx) ==
  IF i > Len(ll) THEN idx
  ELSE uniqueSliceLoop(ll, F, i + 1, uniqueInner(ll[i][F], 1, idx))

\* the second loop of both unique methods, `for k := range idx { r[i] = k; i++ }`
\* on r of length len(idx): Go visits the keys of a map in an unspecified
\* order, so r is any arrangement of the keys
keysInSomeOrder(idx) ==
  { r \in [1..Cardinality(idx) -> idx] : \A i, j \in DOMAIN r : i # j => r[i] # r[j] }

(***************************************************************************)
(* The replacement engine.                                                 *)
(***************************************************************************)
InjectionPrefix == << "/", "/", "c", "o", "l", "g", "e", "n", "@" >>

\* the text that (New|new) matches under the flag i, in lower case
StrNewLower == << "n", "e", "w" >>

\* the position of the first "(" of rule, 0 if there is none
firstParen(rule) ==
  IF ~Contains(rule, "(") THEN 0
  ELSE CHOOSE k \in DOMAIN rule : rule[k] = "(" /\ \A j \in 1..(k - 1) : rule[j] # "("

\* the submatches of reNewFullNameArg on rule, the first "(" being at i:
\* the flag i lets the literal text match in any casing
matchesOf(rule, i) ==
  IF /\ i > 13
     /\ i < Len(rule) - 1
     /\ ToLower(SubSeq(rule, 1, 9)) = InjectionPrefix
     /\ ToLower(SubSeq(rule, 10, 12)) = StrNewLower
     /\ \A j \in 13..(i - 1) : IsWordChar(rule[j])
     /\ rule[Len(rule)] = ")"
     /\ \A j \in (i + 1)..(Len(rule) - 1) : IsWordChar(rule[j]) \/ rule[j] \in { ".", "," }
  THEN << rule, SubSeq(rule, 10, 12), SubSeq(rule, 13, i - 1), SubSeq(rule, i + 1, Len(rule) - 1) >>
  ELSE << >>

\* reNewFullNameArg.FindStringSubmatch(rule): << whole, cmd, entity, args >>
\* or << >>.  A rule is one line, so ^ and $ anchor the whole string.
reNewFullNameArg(rule) == matchesOf(rule, firstParen(rule))

\* ReplaceRule{Find: rule}
NewReplaceRule(rule) ==
  [Find |-> rule, Replace |-> << >>, Cmd |-> << >>, Entity |-> << >>, Arg |-> << >>,
   IsFull |-> FALSE, WithJSON |-> FALSE, Fields |-> << >>]

StrFull == << "f", "u", "l", "l" >>

StrJSON == << "j", "s", "o", "n" >>

\* the loop of ParseReplaceRule over the arguments from position i on: the
\* rule filled so far and the error that stopped the loop
RECURSIVE parseArgs(_, _, _)
parseArgs(args, i, r) ==
  IF i > Len(args) THEN [r |-> r, err |-> NoErr]
  ELSE IF i = 1 THEN parseArgs(args, 2, [r EXCEPT !.Arg = args[1]])
  ELSE IF args[i] = StrFull THEN parseArgs(args, i + 1, [r EXCEPT !.IsFull = TRUE])
  ELSE IF args[i] = StrJSON THEN parseArgs(args, i + 1, [r EXCEPT !.WithJSON = TRUE])
  ELSE [r |-> r, err |-> NewErr(ErrUnknownLine, << args[i] >>)]

\* qualifyArg that leaves the argument as it is written
qualifyArg_AsWritten(r) == r

\* `if !strings.Contains(r.Arg, ".") { r.Arg += "." + r.Entity }`
qualifyArg(r) ==
  IF ~Contains(r.Arg, ".") THEN [r EXCEPT !.Arg = r.Arg \o << "." >> \o r.Entity] ELSE r

\* checkConflicts that lets json pass without full
checkConflicts_JSONAlone(pr) ==
  IF pr.err # NoErr THEN pr
  ELSE [r |-> [qualifyArg(pr.r) EXCEPT !.Fields = << >>], err |-> NoErr]

\* the end of ParseReplaceRule: the check of json without full, the
\* qualification of the argument, `r.Fields = nil`
checkConflicts(pr) ==
  IF pr.err # NoErr THEN pr
  ELSE IF pr.r.WithJSON /\ ~pr.r.IsFull
  THEN [r |-> pr.r, err |-> NewErr(ErrMissingArg, << StrFull >>)]
  ELSE [r |-> [qualifyArg(pr.r) EXCEPT !.Fields = << >>], err |-> NoErr]

\* ParseReplaceRule, given the submatches m
parseMatches(rule, m) ==
  IF Len(m) # 4
  THEN [r |-> NewReplaceRule(rule), err |-> NewErr(ErrUnknownLine, << rule >>)]
  ELSE checkConflicts(parseArgs(Split(m[4], ","), 1,
                                [NewReplaceRule(rule) EXCEPT !.Cmd = m[2], !.Entity = m[3]]))

\* ParseReplaceRule
ParseReplaceRule(rule) == parseMatches(rule, reNewFullNameArg(rule))

\* ParseReplaceRules: all the rules, or nil and the first error
RECURSIVE ParseReplaceRules(_)
appendReplaceRule(rules, pr, rest) ==
  IF pr.err # NoErr THEN [rules |-> << >>, err |-> pr.err]
  ELSE IF rest.err # NoErr THEN rest
  ELSE [rules |-> << pr.r >> \o rest.rules, err |-> NoErr]

ParseReplaceRules(rules) ==
  IF rules = << >> THEN [rules |-> << >>, err |-> NoErr]
  ELSE appendReplaceRule(rules, ParseReplaceRule(Head(rules)), ParseReplaceRules(Tail(rules)))

\* the Replacer without package
NilReplacerPkg == [loaded |-> FALSE, imports |-> {}]

\* the orders in which a range over the map pkg.Imports can visit it
ImportOrders(imports) ==
  { o \in [1..Cardinality(imports) -> imports] : \A i, j \in DOMAIN o : i # j => o[i] # o[j] }

\* the loop of findImportedType over the imports in the order visited, for
\* tp = strings.Split(fullTypeName, ".")
RECURSIVE findInImports(_, _)
findInImports(order, tp) ==
  IF order = << >> THEN NilObj
  ELSE IF HasSuffix(Head(order).PkgPath, tp[1]) /\ tp[2] \in DOMAIN Head(order).scope
  THEN Head(order).scope[tp[2]]
  ELSE findInImports(Tail(order), tp)

\* Replacer.findImportedType when the imports are visited in the given order
findImportedType(pkg, order, fullTypeName) ==
  IF ~pkg.loaded THEN NilObj ELSE findInImports(order, Split(fullTypeName, "."))

\* the json key of field name in a rule of the given entity
lowerTail(t) == IF HasSuffix(t, FieldID) THEN lastRuneToLower(t) ELSE t

tagKey_NoEntity(entity, name) == lowerTail(firsRuneToLower(name))

tagKey(entity, name) ==
  lowerTail(firsRuneToLower(IF name = FieldID THEN entity \o << "I", "d" >> ELSE name))

\* fmt.Sprintf of json:%q between two back quotes, for a key t of letters and
\* digits; BackQuote stands for that one character, which a string constant
\* of this language cannot hold
BackQuote == "U+0060"

jsonTag(t) == << BackQuote, "j", "s", "o", "n", ":", "\"" >> \o t \o << "\"", BackQuote >>

\* the Field that newFields appends for the exported field f
fieldOf(rule, f) ==
  [Name |-> f.Name, Type |-> f.Type,
   Tag |-> IF rule.WithJSON THEN jsonTag(tagKey(rule.Entity, f.Name)) ELSE << >>]

\* newFields that keeps the unexported fields
newFields_All(rule, fields) ==
  IF ~rule.IsFull THEN << >>
  ELSE [i \in DOMAIN fields |-> fieldOf(rule, fields[i])]

\* the exported ones of fields
exportedOf(fields) == SelectSeq(fields, LAMBDA f : f.IsExported)

\* newFields, the loop given the exported fields ff
fieldsOf(rule, ff) == [i \in DOMAIN ff |-> fieldOf(rule, ff[i])]

\* newFields
newFields(rule, fields) ==
  IF ~rule.IsFull THEN << >> ELSE fieldsOf(rule, exportedOf(fields))

\* the text of the template of Replacer.generateByRule
T_Type == << "\n", "t", "y", "p", "e", " " >>

T_Struct == << " ", "s", "t", "r", "u", "c", "t", " ", "{", " " >>

T_FieldIndent == << "\n", " ", " ", " ", " " >>

T_Func == << "\n", "}", "\n", "\n", "f", "u", "n", "c", " " >>

T_In == << "(", "i", "n", " ", "*" >>

T_Ret == << ")", " ", "*" >>

T_Body == << " ", "{", "\n", "\t", "i", "f", " ", "i", "n", " ", "=", "=", " ", "n", "i", "l", " ", "{", "\n", "\t", "\t", "r", "e", "t", "u", "r", "n", " ", "n", "i", "l", "\n", "\t", "}", "\n", "\n", "\t", "r", "e", "t", "u", "r", "n", " ", "&" >>

T_Open == << "{", " " >>

T_CopyIndent == << "\n", " ", " ", " ", " ", " ", " ", " ", " " >>

T_ColonIn == << ":", " ", "i", "n", "." >>

T_StarIn == << ":", " ", "*", "i", "n", "," >>

T_End == << "\n", "\t", "}", "\n", "}", "\n" >>

\* {{range .Fields}}\n    {{.Name}} {{.Type}} {{.Tag}}{{end}}
structFields(ff) ==
  Concat([i \in DOMAIN ff |->
            T_FieldIndent \o ff[i].Name \o << " " >> \o ff[i].Type \o << " " >> \o ff[i].Tag])

\* {{range .Fields}}\n        {{.Name}}: in.{{.Name}},{{end}}
copyFields(ff) ==
  Concat([i \in DOMAIN ff |->
            T_CopyIndent \o ff[i].Name \o T_ColonIn \o ff[i].Name \o << "," >>])

\* generateByRule with the directive kept as a comment above the type
replaceText_KeepsDirective(rule) ==
  << "\n" >> \o rule.Find
  \o T_Type \o rule.Entity \o T_Struct
  \o (IF rule.IsFull THEN structFields(rule.Fields) ELSE T_FieldIndent \o rule.Arg)
  \o T_Func \o rule.Cmd \o rule.Entity \o T_In \o rule.Arg \o T_Ret \o rule.Entity \o T_Body
  \o rule.Entity \o T_Open
  \o (IF rule.IsFull THEN copyFields(rule.Fields)
      ELSE T_CopyIndent \o rule.Entity \o T_StarIn)
  \o T_End

\* Replacer.generateByRule: the template executed on rule
replaceText(rule) ==
  T_Type \o rule.Entity \o T_Struct
  \o (IF rule.IsFull THEN structFields(rule.Fields) ELSE T_FieldIndent \o rule.Arg)
  \o T_Func \o rule.Cmd \o rule.Entity \o T_In \o rule.Arg \o T_Ret \o rule.Entity \o T_Body
  \o rule.Entity \o T_Open
  \o (IF rule.IsFull THEN copyFields(rule.Fields)
      ELSE T_CopyIndent \o rule.Entity \o T_StarIn)
  \o T_End

\* `r.Replace, err = rl.generateByRule(r)`
withReplace(r) == [r EXCEPT !.Replace = replaceText(r)]

\* the body of the loop of Replacer.Generate for a full rule whose type has
\* the fields fields: the rule saved, or the error
fullRule(r, fields) ==
  IF Len(fields) = 0
  THEN [r |-> r, err |-> NewErr(ErrMissingType, << r.Arg >>)]
  ELSE [r |-> withReplace([r EXCEPT !.Fields = newFields(r, fields)]), err |-> NoErr]

\* the body of the loop of Replacer.Generate for rule r
processRule(r, pkg, order) ==
  IF r.IsFull
  THEN fullRule(r, typeSliceFromType(findImportedType(pkg, order, r.Arg)))
  ELSE [r |-> withReplace(r), err |-> NoErr]

\* the loop of Replacer.Generate from rule i on; orders[i] is the order in
\* which the imports are visited for rule i
RECURSIVE processRules(_, _, _, _)
saveRule(rr, i, pkg, orders, g) ==
  IF g.err # NoErr THEN [rules |-> << >>, err |-> g.err]
  ELSE processRules([rr EXCEPT ![i] = g.r], i + 1, pkg, orders)

processRules(rr, i, pkg, orders) ==
  IF i > Len(rr) THEN [rules |-> rr, err |-> NoErr]
  ELSE saveRule(rr, i, pkg, orders, processRule(rr[i], pkg, orders[i]))

\* Replacer.Generate, given what ParseReplaceRules returned
generateParsed(p, pkg, orders) ==
  IF p.err # NoErr THEN [parsed |-> << >>, rules |-> << >>, err |-> p.err]
  ELSE [parsed |-> p.rules] @@ processRules(p.rules, 1, pkg, orders)

\* Replacer.Generate
ReplacerGenerate(rules, pkg, orders) == generateParsed(ParseReplaceRules(rules), pkg, orders)

\* old occurs in s at position i
matchAt(s, i, old) == i + Len(old) - 1 <= Len(s) /\ SubSeq(s, i, i + Len(old) - 1) = old

\* the first position from i on where old occurs in s, 0 if there is none
matchesFrom(s, i, old) == { j \in i..Len(s) : matchAt(s, j, old) }

least(S) == IF S = {} THEN 0 ELSE CHOOSE j \in S : \A k \in S : j <= k

nextMatch(s, i, old) == least(matchesFrom(s, i, old))

\* bytes.ReplaceAll(s, old, new) from position i on, for a non-empty old: the
\* occurrences are taken from left to right and do not overlap
RECURSIVE replaceFrom(_, _, _, _)
replaceAt(s, i, old, new, j) ==
  IF j = 0 THEN SubSeq(s, i, Len(s))
  ELSE SubSeq(s, i, j - 1) \o new \o replaceFrom(s, j + Len(old), old, new)

replaceFrom(s, i, old, new) == replaceAt(s, i, old, new, nextMatch(s, i, old))

\* bytes.ReplaceAll: an empty old matches before every character and at the end
ReplaceAll(s, old, new) ==
  IF old = << >> THEN Concat([i \in DOMAIN s |-> new \o << s[i] >>]) \o new
  ELSE replaceFrom(s, 1, old, new)

\* the loop of replaceFile: every rule applied to what the rules before it
\* left
RECURSIVE replaceRules(_, _)
replaceRules(c, rr) ==
  IF rr = << >> THEN c
  ELSE replaceRules(ReplaceAll(c, Head(rr).Find, Head(rr).Replace), Tail(rr))

\* the bytes of a file with the given lines
fileBytes(fileLines) == Concat([i \in DOMAIN fileLines |-> fileLines[i] \o << "\n" >>])

(***************************************************************************)
(* The command: readFile and the steps of main.  A file is the sequence   *)
(* of its lines.                                                           *)
(***************************************************************************)
ColgenPrefix == << "/", "/", "c", "o", "l", "g", "e", "n", ":" >>

\* the prefix of the assistant directives, //colgen@ai:
AssistantPrefix == << "/", "/", "c", "o", "l", "g", "e", "n", "@", "a", "i", ":" >>

StrPackage == << "p", "a", "c", "k", "a", "g", "e", " " >>

\* the zero colgenLines
ZeroColgenLines ==
  [lines |-> << >>, injection |-> << >>, assistant |-> << >>, pkgName |-> << >>]

\* `if strings.HasPrefix(line, "package ") { result.pkgName = ... }`
readPkgName(result, line) ==
  IF HasPrefix(line, StrPackage)
  THEN [result EXCEPT !.pkgName = TrimPrefix(line, StrPackage)]
  ELSE result

\* classifyLine with the injection case tested before the assistant case
classifyLine_InjectionFirst(result, line) ==
  IF HasPrefix(line, InjectionPrefix)
  THEN [result EXCEPT !.injection = Append(@, line)]
  ELSE IF HasPrefix(line, AssistantPrefix)
  THEN [result EXCEPT !.assistant = Append(@, TrimPrefix(line, AssistantPrefix))]
  ELSE IF HasPrefix(line, ColgenPrefix)
  THEN [result EXCEPT !.lines = Append(@, TrimPrefix(line, ColgenPrefix))]
  ELSE result

\* the switch of readFile on one line: the first case whose prefix the line
\* has, in the order assistant, injection, normal
classifyLine(result, line) ==
  IF HasPrefix(line, AssistantPrefix)
  THEN [result EXCEPT !.assistant = Append(@, TrimPrefix(line, AssistantPrefix))]
  ELSE IF HasPrefix(line, InjectionPrefix)
  THEN [result EXCEPT !.injection = Append(@, line)]
  ELSE IF HasPrefix(line, ColgenPrefix)
  THEN [result EXCEPT !.lines = Append(@, TrimPrefix(line, ColgenPrefix))]
  ELSE result

\* the body of the scan loop of readFile
readLine(result, line) == classifyLine(readPkgName(result, line), line)

\* the scan loop of readFile
RECURSIVE readLines(_, _)
readLines(fileLines, result) ==
  IF fileLines = << >> THEN result
  ELSE readLines(Tail(fileLines), readLine(result, Head(fileLines)))

\* readFile on a file that opens and scans without error
readFile(fileLines) == readLines(fileLines, ZeroColgenLines)

\* the injection lines that readFile finds in the lines of a file
injectionLines(fileLines) == readFile(fileLines).injection

(***************************************************************************)
(* The inputs of the model: directive lines, packages, generator settings. *)
(***************************************************************************)
sNews == << "N", "e", "w", "s" >>

sTag == << "T", "a", "g" >>

sEm == << "E", "m" >>

sNo == << "N", "o" >>

sBase == << "B", "a", "s", "e" >>

sTitle == << "T", "i", "t", "l", "e" >>

sName == << "N", "a", "m", "e" >>

sTagIDs == << "T", "a", "g", "I", "D", "s" >>

sTags == << "T", "a", "g", "s" >>

sNote == << "n", "o", "t", "e" >>

sInt == << "i", "n", "t" >>

sString == << "s", "t", "r", "i", "n", "g" >>

sMain == << "m", "a", "i", "n" >>

sExPath == << "m", "/", "e", "x" >>

\* directive lines in the forms of the README, and malformed ones
\* "News,Tag"
L_NewsTag == << "N", "e", "w", "s", ",", "T", "a", "g" >>

\* " Tag\t"
L_TagPadded == << " ", "T", "a", "g", "\t" >>

\* "News:Title,UniqueTagIDs,Index(Title)"
L_NewsFields == << "N", "e", "w", "s", ":", "T", "i", "t", "l", "e", ",", "U", "n", "i", "q", "u", "e", "T", "a", "g", "I", "D", "s", ",", "I", "n", "d", "e", "x", "(", "T", "i", "t", "l", "e", ")" >>

\* "News:UniqueTitle,Unique"
L_NewsUnique == << "N", "e", "w", "s", ":", "U", "n", "i", "q", "u", "e", "T", "i", "t", "l", "e", ",", "U", "n", "i", "q", "u", "e" >>

\* "Tag:MapP(db)"
L_TagMapP == << "T", "a", "g", ":", "M", "a", "p", "P", "(", "d", "b", ")" >>

\* "Tag:mapp(db.T)"
L_TagLowerMapP == << "T", "a", "g", ":", "m", "a", "p", "p", "(", "d", "b", ".", "T", ")" >>

\* "Tag:MAP(db)"
L_TagMixedMap == << "T", "a", "g", ":", "M", "A", "P", "(", "d", "b", ")" >>

\* "News:Map(db),map(db)"
L_NewsMap == << "N", "e", "w", "s", ":", "M", "a", "p", "(", "d", "b", ")", ",", "m", "a", "p", "(", "d", "b", ")" >>

\* "Tag:Index(Name)"
L_TagIndex == << "T", "a", "g", ":", "I", "n", "d", "e", "x", "(", "N", "a", "m", "e", ")" >>

\* "Tag:ID"
L_TagID == << "T", "a", "g", ":", "I", "D" >>

\* "Tag:Map"
L_TagMapNoArg == << "T", "a", "g", ":", "M", "a", "p" >>

\* "Tag:ID,Index"
L_TagIndexNoArg == << "T", "a", "g", ":", "I", "D", ",", "I", "n", "d", "e", "x" >>

\* "Tag:index(Name)"
L_TagLowerIndex == << "T", "a", "g", ":", "i", "n", "d", "e", "x", "(", "N", "a", "m", "e", ")" >>

\* "News Tag"
L_Spaced == << "N", "e", "w", "s", " ", "T", "a", "g" >>

\* "  "
L_Blank == << " ", " " >>

\* "No,Tag"
L_NoTag == << "N", "o", ",", "T", "a", "g" >>

\* "Em"
L_Em == << "E", "m" >>

\* "News:UniqueTags,UniqueTagIDs"
L_NewsUniqueSlices == << "N", "e", "w", "s", ":", "U", "n", "i", "q", "u", "e", "T", "a", "g", "s", ",", "U", "n", "i", "q", "u", "e", "T", "a", "g", "I", "D", "s" >>

\* "Tag:ID,(Name)"
L_TagBadSpec == << "T", "a", "g", ":", "I", "D", ",", "(", "N", "a", "m", "e", ")" >>

DirectiveLines ==
  { L_NewsTag,
    L_TagPadded,
    L_NewsFields,
    L_NewsUnique,
    L_TagMapP,
    L_TagLowerMapP,
    L_TagMixedMap,
    L_NewsMap,
    L_TagIndex,
    L_TagID,
    L_TagMapNoArg,
    L_TagIndexNoArg,
    L_TagLowerIndex,
    L_Spaced,
    L_Blank,
    L_NoTag,
    L_Em }

\* the characters of the exhaustive short lines
SmallAlphabet == { "A", "b", ":", ",", " ", "(", ")" }

\* every string over SmallAlphabet of length 1..MaxLineLen
ShortLines == UNION { [1..n -> SmallAlphabet] : n \in 1..MaxLineLen }

\* the lists of lines handed to ParseRules
\* the lines with a malformed rule spec and with unique collectors of slice
\* fields, each with an entity list that names its entity, in both orders
DeclaredLists ==
  { << a, b >> : a \in { L_TagBadSpec, L_NewsUniqueSlices }, b \in { L_NewsTag, L_TagPadded } }
    \cup { << b, a >> : a \in { L_TagBadSpec, L_NewsUniqueSlices }, b \in { L_NewsTag, L_TagPadded } }

LineLists ==
  UNION { [1..n -> DirectiveLines] : n \in 0..MaxLines }
    \cup { << l >> : l \in ShortLines }
    \cup DeclaredLists

TInt == BasicT(sInt)

TString == BasicT(sString)

\* package m/ex as in examples/main.go
TagA == NamedT(sExPath, sTag, StructT(<< FieldV(FieldID, TInt), FieldV(sName, TString) >>))

NewsA ==
  NamedT(sExPath, sNews,
         StructT(<< FieldV(FieldID, TInt), FieldV(sTitle, TString),
                    FieldV(sTagIDs, SliceT(TInt)), FieldV(sTags, SliceT(TagA)) >>))

EmA == NamedT(sExPath, sEm, StructT(<< >>))

PkgA ==
  [path |-> sExPath, loaded |-> TRUE,
   scope |-> [n \in { sNews, sTag, sEm } |->
                IF n = sNews THEN NewsA ELSE IF n = sTag THEN TagA ELSE EmA]]

\* a package whose News gets its ID from an embedded *Base, whose Tag has no
\* ID and whose Em is not a struct
BaseB == NamedT(sExPath, sBase, StructT(<< FieldV(FieldID, TInt), FieldV(sNote, TString) >>))

TagB == NamedT(sExPath, sTag, StructT(<< FieldV(sName, TString) >>))

NewsB ==
  NamedT(sExPath, sNews,
         StructT(<< EmbeddedV(sBase, PointerT(BaseB)), FieldV(sTitle, TString) >>))

EmB == NamedT(sExPath, sEm, TInt)

PkgB ==
  [path |-> sExPath, loaded |-> TRUE,
   scope |-> [n \in { sNews, sTag, sEm, sBase } |->
                IF n = sNews THEN NewsB ELSE IF n = sTag THEN TagB
                ELSE IF n = sEm THEN EmB ELSE BaseB]]

Packages == { PkgA, PkgB }

\* "News:UniqueTitle"
L_NewsUniqueTitle == << "N", "e", "w", "s", ":", "U", "n", "i", "q", "u", "e", "T", "i", "t", "l", "e" >>

\* the directives of examples/main.go that this generator knows
ExampleLines == << L_NewsTag, L_NewsFields, L_NewsUniqueTitle >>

\* what Generate writes for them on package m/ex
ExampleOutput == generateRules(ParseRules(ExampleLines, FALSE).rules, PkgA, << >>).out

\* the methods among the pieces written
MethodsOf(kind) == { ExampleOutput[p] : p \in { q \in DOMAIN ExampleOutput : ExampleOutput[q].k = kind } }

\* the entity whose collection type is list, and its field model
EntityOfList(list) == CHOOSE n \in { sNews, sTag } : NewEntity(n, FALSE).List = list

FieldsOfList(list) == typeMapFromType(lookupType(PkgA, EntityOfList(list)))

\* the values of a field of type t: numbers, or slices of numbers
SliceValues == UNION { [1..n -> 1..MaxSliceValue] : n \in 0..MaxSlice }

ValuesOfType(t) == IF HasPrefix(t, << "[", "]" >>) THEN SliceValues ELSE 1..MaxValue

\* the d-th content of a field of type t that a method does not read
RestOfType(t, d) == IF HasPrefix(t, << "[", "]" >>) THEN [i \in 1..(d - 1) |-> d] ELSE d

\* the elements with the fields fields: field F takes every value of its
\* type, the other fields take the d-th content together, d in rests
ElementsOf(fields, F, rests) ==
  { [f \in DOMAIN fields |-> IF f = F THEN vd[1] ELSE RestOfType(fields[f], vd[2])] :
      vd \in ValuesOfType(fields[F]) \X rests }

\* the collections of at most max elements
CollectionsOf(elements, max) == UNION { [1..n -> elements] : n \in 0..max }

\* the number of slice elements of field F in collection c
RECURSIVE Items(_, _)
Items(c, F) == IF c = << >> THEN 0 ELSE Len(Head(c)[F]) + Items(Tail(c), F)

\* the collections given to method m reading the slice field F
SliceCollectionsFor(m, F) ==
  { c \in CollectionsOf(ElementsOf(FieldsOfList(m.a[1]), F, {1}), MaxSliceElems) :
      Items(c, F) <= MaxItems }

\* the collections given to method m reading field F: an index method
\* returns whole elements, so the other fields vary too
CollectionsFor(m, F) ==
  IF m.k = "uniqueSlice" THEN SliceCollectionsFor(m, F)
  ELSE CollectionsOf(ElementsOf(FieldsOfList(m.a[1]), F,
                                IF m.k = "index" THEN 1..MaxRest ELSE {1}),
                     MaxElems)

(***************************************************************************)
(* The inputs of the replacement engine: files and imported packages.      *)
(***************************************************************************)
\* "//colgen@NewCall(db)"
R_NewCall == << "/", "/", "c", "o", "l", "g", "e", "n", "@", "N", "e", "w", "C", "a", "l", "l", "(", "d", "b", ")" >>

\* "//colgen@newUserSummary(db.User,full,json)"
R_newUserSummary == << "/", "/", "c", "o", "l", "g", "e", "n", "@", "n", "e", "w", "U", "s", "e", "r", "S", "u", "m", "m", "a", "r", "y", "(", "d", "b", ".", "U", "s", "e", "r", ",", "f", "u", "l", "l", ",", "j", "s", "o", "n", ")" >>

\* "//colgen@NewUser(db.User,full)"
R_NewUserFull == << "/", "/", "c", "o", "l", "g", "e", "n", "@", "N", "e", "w", "U", "s", "e", "r", "(", "d", "b", ".", "U", "s", "e", "r", ",", "f", "u", "l", "l", ")" >>

\* "//colgen@NewRow(db.User,json,full)"
R_NewRowJSONFull == << "/", "/", "c", "o", "l", "g", "e", "n", "@", "N", "e", "w", "R", "o", "w", "(", "d", "b", ".", "U", "s", "e", "r", ",", "j", "s", "o", "n", ",", "f", "u", "l", "l", ")" >>

\* "//colgen@NewUser(db,json)"
R_NewUserJSON == << "/", "/", "c", "o", "l", "g", "e", "n", "@", "N", "e", "w", "U", "s", "e", "r", "(", "d", "b", ",", "j", "s", "o", "n", ")" >>

\* "//colgen@NewUser(db,all)"
R_NewUserAll == << "/", "/", "c", "o", "l", "g", "e", "n", "@", "N", "e", "w", "U", "s", "e", "r", "(", "d", "b", ",", "a", "l", "l", ")" >>

\* "//colgen@NewUser(db,json,all)"
R_NewUserJSONAll == << "/", "/", "c", "o", "l", "g", "e", "n", "@", "N", "e", "w", "U", "s", "e", "r", "(", "d", "b", ",", "j", "s", "o", "n", ",", "a", "l", "l", ")" >>

\* "//colgen@NewGone(db,full)"
R_NewGone == << "/", "/", "c", "o", "l", "g", "e", "n", "@", "N", "e", "w", "G", "o", "n", "e", "(", "d", "b", ",", "f", "u", "l", "l", ")" >>

\* "//colgen@NoCall(db)"
R_NoCall == << "/", "/", "c", "o", "l", "g", "e", "n", "@", "N", "o", "C", "a", "l", "l", "(", "d", "b", ")" >>

\* "x //colgen@NewCall(db)"
R_Inline == << "x", " ", "/", "/", "c", "o", "l", "g", "e", "n", "@", "N", "e", "w", "C", "a", "l", "l", "(", "d", "b", ")" >>

\* "//colgen@NewRow(db.User)"
R_NewRow == << "/", "/", "c", "o", "l", "g", "e", "n", "@", "N", "e", "w", "R", "o", "w", "(", "d", "b", ".", "U", "s", "e", "r", ")" >>

FileLines ==
  { R_NewCall,
    R_NewRow,
    R_newUserSummary,
    R_NewUserFull,
    R_NewRowJSONFull,
    R_NewUserJSON,
    R_NewUserAll,
    R_NewUserJSONAll,
    R_NewGone,
    R_NoCall,
    R_Inline }

\* the command token in every casing, before "A(b)"
CasingLines ==
  { InjectionPrefix \o << c1, c2, c3 >> \o << "A", "(", "b", ")" >> :
      c1 \in { "N", "n" }, c2 \in { "E", "e" }, c3 \in { "W", "w" } }

\* the characters of the exhaustive short directives
DirectiveAlphabet == { "A", "(", ")", ",", "." }

\* "//colgen@New" followed by every string over DirectiveAlphabet of length
\* 1..MaxTail
TailLines ==
  { InjectionPrefix \o StrNew \o t :
      t \in UNION { [1..n -> DirectiveAlphabet] : n \in 1..MaxTail } }

\* the files given to colgen: their lines
Files ==
  UNION { [1..n -> FileLines] : n \in 1..MaxFileLines }
    \cup { << l >> : l \in CasingLines \cup TailLines }

\* "package ex"
S_Package == << "p", "a", "c", "k", "a", "g", "e", " ", "e", "x" >>

\* "//colgen:News,Tag"
S_NewsTag == ColgenPrefix \o L_NewsTag

\* "//colgen:Em"
S_Em == ColgenPrefix \o L_Em

\* "//colgen@ai:tests(claude)"
S_AiTests == AssistantPrefix \o << "t", "e", "s", "t", "s", "(", "c", "l", "a", "u", "d", "e", ")" >>

\* "//colgen@ai:readme"
S_AiReadme == AssistantPrefix \o << "r", "e", "a", "d", "m", "e" >>

\* " //colgen:Em": the prefix is not at the start of the line
S_Indented == << " " >> \o S_Em

\* the lines of the source files after the package clause
SourceLines == { S_NewsTag, S_Em, S_AiTests, S_AiReadme, R_NewCall, R_newUserSummary, S_Indented }

\* the source files that main reads: the package clause and up to
\* MaxSourceLines lines
SourceFiles ==
  { << S_Package >> \o body :
      body \in UNION { [1..n -> SourceLines] : n \in 0..MaxSourceLines } }

sUser == << "U", "s", "e", "r" >>

sUserSummary == << "U", "s", "e", "r", "S", "u", "m", "m", "a", "r", "y" >>

sStatusID == << "S", "t", "a", "t", "u", "s", "I", "D" >>

sCreatedAt == << "C", "r", "e", "a", "t", "e", "d", "A", "t" >>

sDBPath == << "m", "/", "d", "b" >>

sMyDBPath == << "x", "/", "m", "y", "d", "b" >>

sTmPath == << "m", "/", "t", "m" >>

TTime == NamedT(sTmPath, << "T", "i", "m", "e" >>, StructT(<< >>))

\* package m/db: User embeds Base, which has an unexported field
BaseDB == NamedT(sDBPath, sBase, StructT(<< FieldV(FieldID, TInt), FieldV(sNote, TString) >>))

UserDB ==
  NamedT(sDBPath, sUser,
         StructT(<< EmbeddedV(sBase, BaseDB), FieldV(sStatusID, TInt),
                    FieldV(sCreatedAt, TTime) >>))

ImportDB ==
  [PkgPath |-> sDBPath,
   scope |-> [n \in { sUser, sBase } |-> IF n = sUser THEN UserDB ELSE BaseDB]]

\* package x/mydb, whose path ends in db as well
UserMyDB == NamedT(sMyDBPath, sUser, StructT(<< FieldV(sName, TString) >>))

ImportMyDB == [PkgPath |-> sMyDBPath, scope |-> [n \in { sUser } |-> UserMyDB]]

\* the packages that Replacer.UsePackageDir loads
ReplacerPackages ==
  { [loaded |-> TRUE, imports |-> { ImportDB }],
    [loaded |-> TRUE, imports |-> { ImportDB, ImportMyDB }] }

\* the arguments of NewGenerator: pkgName, imports (split and sorted), funcPkgName
GeneratorSettings ==
  { [pkgName |-> sMain, imports |-> << >>, funcPkgName |-> << >>],
    [pkgName |-> sMain, imports |-> << << "a" >>, << "b" >> >>, funcPkgName |-> << "f" >>] }

(***************************************************************************)
(* The state: one run of ParseRules followed by the use of one Generator.  *)
(***************************************************************************)
VARIABLES
  pc,             \* "start", "parsed" (ParseRules returned nil error), "failed"
  lines,          \* the lines given to ParseRules
  useListSuffix,  \* the flag given to ParseRules
  result,         \* ParseRules's local result: the rules before the merge
  rules,          \* the rules ParseRules returned
  perr,           \* the error ParseRules returned
  settings,       \* Generator.pkgName, imports, funcPkgName
  pkg,            \* Generator.pkg
  gerr,           \* Generator.err
  buf,            \* Generator.buf
  out,            \* the bytes the last Generate returned (<< >> is nil)
  oerr,           \* the error the last Generate returned
  ngen,           \* the number of Generate calls so far
  call,           \* the generated method that was called (a piece), if any
  ll,             \* the collection it was called on
  ret,            \* what it returned
  injection,      \* the injection lines given to Replacer.Generate
  rpkg,           \* Replacer.pkg
  parsedRules,    \* Replacer.Generate's rr after ParseReplaceRules
  replRules,      \* the rules Replacer.Generate returned
  rerr,           \* the error Replacer.Generate returned
  content,        \* the file replaceFile read
  written,        \* the file replaceFile wrote
  file,           \* the lines of the source file main read (<< >> before)
  cl,             \* the colgenLines readFile returned
  assisted        \* the prompts main handed to assistFile

generatorVars == << lines, useListSuffix, result, rules, perr, settings, pkg, gerr, buf, out, oerr, ngen >>

methodVars == << call, ll, ret >>

replacerVars == << injection, rpkg, parsedRules, replRules, rerr, content, written >>

commandVars == << file, cl, assisted >>

vars == << pc, generatorVars, methodVars, replacerVars, commandVars >>

\* no generated method was called
NoCall == Piece("none", << >>)

\* NewGenerator; nothing parsed yet
Init ==
  /\ pc = "start"
  /\ lines = << >>
  /\ useListSuffix = FALSE
  /\ result = << >>
  /\ rules = << >>
  /\ perr = NoErr
  /\ settings \in GeneratorSettings
  /\ pkg = NilPkg
  /\ gerr = NoErr
  /\ buf = << >>
  /\ out = << >>
  /\ oerr = NoErr
  /\ ngen = 0
  /\ call = NoCall
  /\ ll = << >>
  /\ ret = << >>
  /\ injection = << >>
  /\ rpkg = NilReplacerPkg
  /\ parsedRules = << >>
  /\ replRules = << >>
  /\ rerr = NoErr
  /\ content = << >>
  /\ written = << >>
  /\ file = << >>
  /\ cl = ZeroColgenLines
  /\ assisted = << >>

\* rules, err := ParseRules(ls, ul) returned r
parsed(ls, ul, r) ==
  /\ lines' = ls
  /\ useListSuffix' = ul
  /\ result' = r.result
  /\ rules' = r.rules
  /\ perr' = r.err
  /\ pc' = IF r.err # NoErr THEN "failed" ELSE "parsed"

\* rules, err := ParseRules(ls, ul) for some lines and flag; a non-nil error
\* ends the run (exitOnErr)
DoParseRules ==
  /\ pc = "start"
  /\ \E ls \in LineLists, ul \in BOOLEAN : parsed(ls, ul, ParseRules(ls, ul))
  /\ UNCHANGED << settings, pkg, gerr, buf, out, oerr, ngen >>
  /\ UNCHANGED << methodVars, replacerVars, commandVars >>

\* Generator.UsePackageDir when loadPackage succeeds with package p
UsePackageDir(p) ==
  /\ pc = "parsed"
  /\ ~pkg.loaded
  /\ ngen = 0
  /\ pkg' = p
  /\ gerr' = NoErr
  /\ UNCHANGED << pc, lines, useListSuffix, result, rules, perr, settings, buf, out, oerr, ngen >>
  /\ UNCHANGED << methodVars, replacerVars, commandVars >>

\* Generator.UsePackageDir when loadPackage fails: the error is kept in
\* Generator.err and ends the run (exitOnErr)
UsePackageDirFails ==
  /\ pc = "parsed"
  /\ ~pkg.loaded
  /\ ngen = 0
  /\ pkg' = NilPkg
  /\ gerr' = NewErr("load package", << >>)
  /\ pc' = "failed"
  /\ UNCHANGED << lines, useListSuffix, result, rules, perr, settings, buf, out, oerr, ngen >>
  /\ UNCHANGED << methodVars, replacerVars, commandVars >>

\* the returns of Generate: nil and the wrapped error of the loop, or the
\* bytes of the buffer and Generator.err
generated(g) ==
  /\ buf' = g.buf
  /\ out' = IF g.err # NoErr THEN << >> ELSE g.buf
  /\ oerr' = IF g.err # NoErr THEN g.err ELSE gerr

\* data, err := Generator.Generate(rules)
Generate ==
  /\ pc = "parsed"
  /\ ngen < MaxGenerate
  /\ generated(generateInto(buf, genHead(settings.pkgName, settings.imports),
                            generateRules(rules, pkg, settings.funcPkgName)))
  /\ ngen' = ngen + 1
  /\ UNCHANGED << pc, lines, useListSuffix, result, rules, perr, settings, pkg, gerr >>
  /\ UNCHANGED << methodVars, replacerVars, commandVars >>

\* method m was called on collection c and returned r
ran(m, c, r) ==
  /\ call' = m
  /\ ll' = c
  /\ ret' = r
  /\ pc' = "ran"

\* a call of a generated field collector, such as NewsList.IDs
CallField ==
  /\ pc = "start"
  /\ \E m \in MethodsOf("field") : \E c \in CollectionsFor(m, m.a[4]) :
       ran(m, c, fieldMethod(c, m.a[4]))
  /\ UNCHANGED << generatorVars, replacerVars, commandVars >>

\* a call of a generated index method, such as NewsList.IndexByTitle
CallIndex ==
  /\ pc = "start"
  /\ \E m \in MethodsOf("index") : \E c \in CollectionsFor(m, m.a[5]) :
       ran(m, c, indexMethod(c, m.a[5]))
  /\ UNCHANGED << generatorVars, replacerVars, commandVars >>

\* a call of a generated unique collector of a scalar field, such as
\* NewsList.UniqueTitles
CallUnique ==
  /\ pc = "start"
  /\ \E m \in MethodsOf("unique") : \E c \in CollectionsFor(m, m.a[4]) :
       \E r \in keysInSomeOrder(uniqueLoop(c, m.a[4], 1, {})) : ran(m, c, r)
  /\ UNCHANGED << generatorVars, replacerVars, commandVars >>

\* a call of a generated unique collector of a slice field, such as
\* NewsList.UniqueTagIDs
CallUniqueSlice ==
  /\ pc = "start"
  /\ \E m \in MethodsOf("uniqueSlice") : \E c \in CollectionsFor(m, m.a[4]) :
       \E r \in keysInSomeOrder(uniqueSliceLoop(c, m.a[4], 1, {})) : ran(m, c, r)
  /\ UNCHANGED << generatorVars, replacerVars, commandVars >>

\* replaceFile on a file f whose package loads as p: g is what
\* Replacer.Generate returns for the injection lines; an error ends the run
\* (exitOnErr) before the file is read, otherwise every rule is applied to
\* the content and the file is written
replaced(f, p, g) ==
  /\ injection' = injectionLines(f)
  /\ rpkg' = p
  /\ parsedRules' = g.parsed
  /\ replRules' = g.rules
  /\ rerr' = g.err
  /\ content' = fileBytes(f)
  /\ written' = IF g.err # NoErr THEN << >> ELSE replaceRules(fileBytes(f), g.rules)
  /\ pc' = IF g.err # NoErr THEN "refused" ELSE "replaced"

\* main on a file with injection lines: replaceFile.  Every range over the
\* imports visits them in some order.
ReplaceFile ==
  /\ pc = "start"
  /\ \E f \in Files : \E p \in ReplacerPackages :
       \E orders \in [DOMAIN injectionLines(f) -> ImportOrders(p.imports)] :
         /\ injectionLines(f) # << >>
         /\ replaced(f, p, ReplacerGenerate(injectionLines(f), p, orders))
  /\ UNCHANGED << generatorVars, methodVars, commandVars >>

\* replaceFile when Replacer.UsePackageDir fails: the error ends the run
ReplaceFileNoPackage ==
  /\ pc = "start"
  /\ \E f \in Files :
       /\ injectionLines(f) # << >>
       /\ injection' = injectionLines(f)
  /\ rerr' = NewErr("load package", << >>)
  /\ pc' = "refused"
  /\ UNCHANGED << rpkg, parsedRules, replRules, content, written >>
  /\ UNCHANGED << generatorVars, methodVars, commandVars >>

\* cl, err := readFile(filename) in main, for some source file
ReadFile ==
  /\ pc = "start"
  /\ \E f \in SourceFiles : file' = f /\ cl' = readFile(f)
  /\ pc' = "read"
  /\ UNCHANGED << assisted, generatorVars, methodVars, replacerVars >>

\* main, `if len(cl.assistant) > 0`: assistFile on the first assistant line,
\* and return
AssistFile ==
  /\ pc = "read"
  /\ Len(cl.assistant) > 0
  /\ assisted' = Append(assisted, cl.assistant[1])
  /\ pc' = "assisted"
  /\ UNCHANGED << file, cl, generatorVars, methodVars, replacerVars >>

\* main, `if len(cl.injection) > 0`: replaceFile(cl, filename)
ReplaceInjections ==
  /\ pc = "read"
  /\ cl.assistant = << >>
  /\ cl.injection # << >>
  /\ \E p \in ReplacerPackages :
       \E orders \in [DOMAIN cl.injection -> ImportOrders(p.imports)] :
         replaced(file, p, ReplacerGenerate(cl.injection, p, orders))
  /\ UNCHANGED << generatorVars, methodVars, commandVars >>

\* the same when Replacer.UsePackageDir fails: the error ends the run
ReplaceInjectionsNoPackage ==
  /\ pc = "read"
  /\ cl.assistant = << >>
  /\ cl.injection # << >>
  /\ injection' = cl.injection
  /\ rerr' = NewErr("load package", << >>)
  /\ pc' = "refused"
  /\ UNCHANGED << rpkg, parsedRules, replRules, content, written >>
  /\ UNCHANGED << generatorVars, methodVars, commandVars >>

\* PastInjections that does not wait for replaceFile
PastInjections_NoWait ==
  \/ pc = "read" /\ cl.assistant = << >>
  \/ pc = "replaced" /\ file # << >>

\* main is past the injection block: no assistant line was found, and
\* replaceFile has returned if there were injection lines
PastInjections ==
  \/ pc = "read" /\ cl.assistant = << >> /\ cl.injection = << >>
  \/ pc = "replaced" /\ file # << >>

\* main, `if len(cl.lines) == 0 { ...; return }`
NoColgenLines ==
  /\ PastInjections
  /\ cl.lines = << >>
  /\ pc' = "done"
  /\ UNCHANGED << generatorVars, methodVars, replacerVars, commandVars >>

\* main, generateFile: NewGenerator with the package name of the file and
\* ParseRules on the normal lines; UsePackageDir and Generate follow
GenerateFile ==
  /\ PastInjections
  /\ cl.lines # << >>
  /\ \E ul \in BOOLEAN : parsed(cl.lines, ul, ParseRules(cl.lines, ul))
  /\ settings' = [settings EXCEPT !.pkgName = cl.pkgName]
  /\ UNCHANGED << pkg, gerr, buf, out, oerr, ngen >>
  /\ UNCHANGED << methodVars, replacerVars, commandVars >>

Next ==
  \/ DoParseRules
  \/ \E p \in Packages : UsePackageDir(p)
  \/ UsePackageDirFails
  \/ Generate
  \/ CallField
  \/ CallIndex
  \/ CallUnique
  \/ CallUniqueSlice
  \/ ReplaceFile
  \/ ReplaceFileNoPackage
  \/ ReadFile
  \/ AssistFile
  \/ ReplaceInjections
  \/ ReplaceInjectionsNoPackage
  \/ NoColgenLines
  \/ GenerateFile

Spec == Init /\ [][Next]_vars

(***************************************************************************)
(* Properties of the directive grammar.                                    *)
(***************************************************************************)
\* the classes of a trimmed line
IsCustomLine(t) == \E i \in DOMAIN t : t[i] = ":"

IsListLine(t) ==
  /\ t # << >>
  /\ ~IsCustomLine(t)
  /\ (\E i \in DOMAIN t : t[i] = ",") \/ (\A i \in DOMAIN t : t[i] # " ")

IsOtherLine(t) == t # << >> /\ ~IsCustomLine(t) /\ ~IsListLine(t)

\* the number of occurrences of character c in t
Count(t, c) == Cardinality({ i \in DOMAIN t : t[i] = c })

\* the BaseGen flags of the rules the lines ls stand for, line by line: none
\* for an empty line, one FALSE for a custom-rule line, one TRUE per name of
\* an entity list
RECURSIVE ExpectedBaseGen(_)
ExpectedBaseGen(ls) ==
  IF ls = << >> THEN << >>
  ELSE LET t == TrimSpace(Head(ls))
       IN  (IF t = << >> THEN << >>
            ELSE IF IsCustomLine(t) THEN << FALSE >>
            ELSE [i \in 1..(Count(t, ",") + 1) |-> TRUE])
           \o ExpectedBaseGen(Tail(ls))

\* ParseRules got through its loop: the error is nil or comes from validateRules
ParsedAllLines == pc # "start" /\ perr.kind \in { "nil", ErrMissingEntity }

\* C1: every non-empty trimmed line is classified custom-rule line (has ':'),
\* else entity list (has ',' or no space), else unknown: an unknown line
\* fails ParseRules with 'unknown line' and no rules, and empty lines are
\* skipped.
C1_LineClassification ==
  pc # "start" =>
    /\ \A i \in DOMAIN lines :
         IsOtherLine(TrimSpace(lines[i])) =>
           /\ perr.kind # "nil" /\ rules = << >> /\ pc = "failed"
           /\ (\A j \in 1..(i - 1) : ~IsCustomLine(TrimSpace(lines[j]))
                                     /\ ~IsOtherLine(TrimSpace(lines[j])))
                => perr = NewErr(ErrUnknownLine, << TrimSpace(lines[i]) >>)
    /\ (\A i \in DOMAIN lines : ~IsCustomLine(TrimSpace(lines[i]))
                                /\ ~IsOtherLine(TrimSpace(lines[i])))
         => perr = NoErr
    /\ ParsedAllLines =>
         /\ \A i \in DOMAIN lines : ~IsOtherLine(TrimSpace(lines[i]))
         /\ [i \in DOMAIN result |-> result[i].BaseGen] = ExpectedBaseGen(lines)
         /\ \A i \in DOMAIN result :
              result[i].BaseGen <=> result[i].CustomRules = << >>

\* an entity list and an empty line were accepted before an unknown line
\* stopped ParseRules
C1_Witness ==
  /\ pc = "failed"
  /\ perr.kind = ErrUnknownLine
  /\ rules = << >>
  /\ \E i \in DOMAIN lines :
       /\ IsOtherLine(TrimSpace(lines[i]))
       /\ \E j \in 1..(i - 1) : IsListLine(TrimSpace(lines[j]))

(***************************************************************************)
(* Properties of the merge and the validation.                             *)
(***************************************************************************)
\* the positions of the rules of entity n in the rule list rs
PositionsOf(rs, n) == { i \in DOMAIN rs : rs[i].EntityName = n }

\* the custom rules of the rules of rs at the positions ps, in list order
RECURSIVE CustomRulesAt(_, _)
CustomRulesAt(rs, ps) ==
  IF ps = {} THEN << >>
  ELSE LET i == CHOOSE k \in ps : \A j \in ps : k <= j
       IN  rs[i].CustomRules \o CustomRulesAt(rs, ps \ {i})

\* C2: the first Rule of an entity seeds its merged entry; a later Rule
\* without custom rules sets BaseGen and nothing else; a later Rule with
\* custom rules appends them in order and leaves BaseGen alone.
C2_MergePolicy ==
  ParsedAllLines =>
    \A i \in DOMAIN rules :
      LET ps == PositionsOf(result, rules[i].EntityName)
          first == CHOOSE k \in ps : \A j \in ps : k <= j
      IN  /\ ps # {}
          /\ rules[i].CustomRules = CustomRulesAt(result, ps)
          /\ rules[i].BaseGen <=>
               \/ result[first].BaseGen
               \/ \E k \in ps \ {first} : Len(result[k].CustomRules) = 0
          /\ rules[i].UseListSuffix = useListSuffix

\* two Rules of one entity, only the second with custom rules: the merged
\* Rule has the custom rules of the second and the BaseGen of the first
C2_Witness ==
  /\ ParsedAllLines
  /\ \E i \in DOMAIN rules :
       LET ps == PositionsOf(result, rules[i].EntityName)
       IN  /\ Cardinality(ps) = 2
           /\ \E a, b \in ps :
                /\ a < b
                /\ result[a].CustomRules = << >>
                /\ result[b].CustomRules # << >>
                /\ rules[i].CustomRules = result[b].CustomRules
                /\ rules[i].BaseGen = result[a].BaseGen

\* C3: when ParseRules succeeds, the returned list has exactly one Rule per
\* entity name occurring in the input and is strictly ascending by EntityName.
C3_OneRulePerEntitySorted ==
  pc = "parsed" =>
    /\ { rules[i].EntityName : i \in DOMAIN rules }
         = { result[i].EntityName : i \in DOMAIN result }
    /\ \A i, j \in DOMAIN rules :
         i < j => StrLess(rules[i].EntityName, rules[j].EntityName)

\* an input that names an entity twice and names the entities out of order
C3_Witness ==
  /\ pc = "parsed"
  /\ Len(rules) >= 2
  /\ Len(result) > Len(rules)
  /\ \E i, j \in DOMAIN result :
       i < j /\ StrLess(result[j].EntityName, result[i].EntityName)

\* a custom rule that is not a converter: its name is not map or mapp in any
\* casing
NotConverter(cr) ==
  ToLower(cr.Name) \notin { << "m", "a", "p" >>, << "m", "a", "p", "p" >> }

\* C4: ParseRules fails with 'missing main entity' if and only if a merged
\* Rule without base generation has a custom rule that is not map/mapP.
C4_MissingMainEntity ==
  ParsedAllLines =>
    /\ perr.kind = ErrMissingEntity <=>
         \E i \in DOMAIN rules :
           /\ ~rules[i].BaseGen
           /\ \E j \in DOMAIN rules[i].CustomRules : NotConverter(rules[i].CustomRules[j])
    /\ perr.kind = ErrMissingEntity =>
         \E i \in DOMAIN rules :
           /\ ~rules[i].BaseGen
           /\ \E j \in DOMAIN rules[i].CustomRules :
                /\ NotConverter(rules[i].CustomRules[j])
                /\ perr.msg = << rules[i].EntityName, rules[i].CustomRules[j].Name >>

\* an Index rule on an entity without base generation is refused, next to a
\* lower-case converter that is let through
C4_Witness ==
  /\ pc = "failed"
  /\ perr.kind = ErrMissingEntity
  /\ \E i \in DOMAIN rules :
       /\ ~rules[i].BaseGen
       /\ \E j, k \in DOMAIN rules[i].CustomRules :
            /\ rules[i].CustomRules[j].Name = CustomRuleIndex
            /\ rules[i].CustomRules[k].Name = << "m", "a", "p", "p" >>

(***************************************************************************)
(* Properties of the entity list.                                          *)
(***************************************************************************)
\* the names joined by commas
RECURSIVE JoinNames(_)
JoinNames(ns) ==
  IF ns = << >> THEN << >>
  ELSE IF Len(ns) = 1 THEN ns[1]
  ELSE ns[1] \o << "," >> \o JoinNames(Tail(ns))

\* the names of rs are the names listed in line t, in listed order
ListedInOrder(rs, t) ==
  /\ JoinNames([i \in DOMAIN rs |-> rs[i].EntityName]) = t
  /\ Len(rs) = Count(t, ",") + 1

\* the rules rs are base rules without custom rules
AllBase(rs) == \A i \in DOMAIN rs : rs[i].BaseGen /\ rs[i].CustomRules = << >>

\* ParseRules was given one line, an entity list
OneListLine == pc # "start" /\ Len(lines) = 1 /\ IsListLine(TrimSpace(lines[1]))

\* C5 as stated: for a line Entity1,Entity2 the parse yields one base Rule
\* per listed name, in listed order.  ParseRules does not: it returns the
\* rules merged and sorted.
C5_Original ==
  OneListLine => /\ perr = NoErr
                 /\ ListedInOrder(rules, TrimSpace(lines[1]))
                 /\ AllBase(rules)

\* C5 amended: for a line Entity1,Entity2 the line parser yields one base
\* Rule per listed name, in listed order, each with BaseGen and no custom
\* rules; ParseRules returns them merged, one per distinct listed name, in
\* ascending name order.
C5_EntityList ==
  OneListLine =>
    /\ perr = NoErr
    /\ ListedInOrder(result, TrimSpace(lines[1]))
    /\ AllBase(result)
    /\ AllBase(rules)
    /\ { rules[i].EntityName : i \in DOMAIN rules }
         = { result[i].EntityName : i \in DOMAIN result }
    /\ \A i, j \in DOMAIN rules :
         i < j => StrLess(rules[i].EntityName, rules[j].EntityName)

\* a list of two names given in descending order
C5_Witness ==
  /\ OneListLine
  /\ Len(result) = 2
  /\ StrLess(result[2].EntityName, result[1].EntityName)
  /\ rules = << result[2], result[1] >>

(***************************************************************************)
(* Properties of the rule specs that take an argument.                     *)
(***************************************************************************)
\* ParseRules was given one line, a custom-rule line with one colon
OneCustomLine == pc # "start" /\ Len(lines) = 1 /\ Count(TrimSpace(lines[1]), ":") = 1

\* the rule specs of custom-rule line t
RuleSpecsOf(t) ==
  Split(SubSeq(t, (CHOOSE k \in DOMAIN t : t[k] = ":") + 1, Len(t)), ",")

\* the identifier takes an argument
IsConverterName(id) == ToLower(id) \in { << "m", "a", "p" >>, << "m", "a", "p", "p" >> }

NeedsArg(id) == IsConverterName(id) \/ id = << "I", "n", "d", "e", "x" >>

\* rule spec s is id(arg), id of word characters and arg of word characters
\* and dots, both non-empty
IsNameArg(s, id, arg) ==
  /\ s = id \o << "(" >> \o arg \o << ")" >>
  /\ id # << >> /\ \A i \in DOMAIN id : IsWordChar(id[i])
  /\ arg # << >> /\ \A i \in DOMAIN arg : IsWordChar(arg[i]) \/ arg[i] = "."

\* the custom rule cr is the one that rule spec s = id(arg) stands for, where
\* id takes an argument
IsArgumentRule(cr, id, arg) ==
  /\ IsConverterName(id) => cr.Name = id /\ cr.Arg = arg
  /\ id = << "I", "n", "d", "e", "x" >> => cr.Name = CustomRuleIndex /\ cr.Field = arg

FieldsOf(i) == typeMapFromType(lookupType(pkg, rules[i].EntityName))

\* rules[i] has no usable type
TypeMissing(i) == DOMAIN FieldsOf(i) = {}

\* custom rule j of rules[i] is a unique, index or plain-field rule whose
\* Field is not a field of the entity
FieldMissing(i, j) ==
  /\ ~IsConverterName(rules[i].CustomRules[j].Name)
  /\ rules[i].CustomRules[j].Field \notin DOMAIN FieldsOf(i)

\* nothing fails before custom rule j of rules[i] (before rules[i] when j = 0)
NoFailureBefore(i, j) ==
  /\ \A h \in 1..(i - 1) :
       ~TypeMissing(h) /\ \A k \in DOMAIN rules[h].CustomRules : ~FieldMissing(h, k)
  /\ j > 0 => ~TypeMissing(i) /\ \A k \in 1..(j - 1) : ~FieldMissing(i, k)

\* Generate has returned
Generated == pc = "parsed" /\ ngen >= 1

\* C7: a unique, index or plain-field rule whose Field is not in the field
\* model of its entity makes Generate fail and return no bytes, with 'missing
\* field' naming that field when it is the first failure; a map/mapP rule
\* never fails for its field.
C7_MissingField ==
  Generated =>
    /\ \A i \in DOMAIN rules : \A j \in DOMAIN rules[i].CustomRules :
         FieldMissing(i, j) =>
           /\ out = << >>
           /\ oerr.kind \in { ErrMissingField, ErrMissingType }
           /\ NoFailureBefore(i, j) =>
                oerr = NewErr(ErrMissingField,
                              << rules[i].CustomRules[j].Field, rules[i].EntityName >>)
    /\ oerr.kind = ErrMissingField =>
         \E i \in DOMAIN rules : \E j \in DOMAIN rules[i].CustomRules :
           FieldMissing(i, j) /\ NoFailureBefore(i, j)

\* Tag has no field ID: the plain field rule ID of Tag stopped Generate after
\* the rule of News was generated
C7_Witness ==
  /\ Generated
  /\ oerr = NewErr(ErrMissingField, << FieldID, sTag >>)
  /\ out = << >>
  /\ \E i \in DOMAIN rules : \E j \in DOMAIN rules[i].CustomRules :
       i > 1 /\ FieldMissing(i, j) /\ rules[i].CustomRules[j].Name = << >>

\* the entities of the type declarations in the pieces b, in order
RECURSIVE TypesIn(_)
TypesIn(b) ==
  IF b = << >> THEN << >>
  ELSE (IF Head(b).k = "type" THEN << Head(b).a[2] >> ELSE << >>) \o TypesIn(Tail(b))

\* the names of the rules with base generation among the first n rules
RECURSIVE BaseNames(_)
BaseNames(n) ==
  IF n = 0 THEN << >>
  ELSE BaseNames(n - 1) \o (IF rules[n].BaseGen THEN << rules[n].EntityName >> ELSE << >>)

\* C8: the rules are generated in list order, and a rule whose entity has an
\* empty field map stops Generate with 'missing type' and no bytes returned,
\* whatever was generated for the rules before it; no later rule is generated.
C8_FailFastMissingType ==
  Generated =>
    /\ \A i \in DOMAIN rules :
         TypeMissing(i) =>
           /\ out = << >>
           /\ oerr.kind \in { ErrMissingField, ErrMissingType }
           /\ NoFailureBefore(i, 0) =>
                /\ oerr = NewErr(ErrMissingType,
                                 << rules[i].EntityName, rules[i].EntityName >>)
                /\ ngen = 1 => TypesIn(buf) = BaseNames(i - 1)
    /\ oerr.kind = ErrMissingType =>
         \E i \in DOMAIN rules : TypeMissing(i) /\ NoFailureBefore(i, 0)
    /\ (oerr = NoErr /\ ngen = 1) => TypesIn(out) = BaseNames(Len(rules))

\* News was generated, then No had no type: nothing is returned
C8_Witness ==
  /\ Generated
  /\ ngen = 1
  /\ oerr.kind = ErrMissingType
  /\ out = << >>
  /\ TypesIn(buf) # << >>
  /\ \E i \in DOMAIN rules : i > 1 /\ i < Len(rules) /\ TypeMissing(i) /\ NoFailureBefore(i, 0)

\* the pieces of out of kind k that belong to the collection type list
PiecesOf(k, list) == { p \in DOMAIN out : out[p].k = k /\ out[p].a[1] = list }

\* out has the declaration `type <List> []<Name>` of entity e
HasTypeDecl(e) == \E p \in PiecesOf("type", e.List) : out[p].a[2] = e.Name

\* out has the method IDs of entity e, collecting the field ID
HasIDs(e) ==
  \E p \in PiecesOf("field", e.List) :
    out[p].a[2] = << "I", "D", "s" >> /\ out[p].a[4] = FieldID

\* out has the method Index of entity e, keyed by the field ID
HasIndex(e) ==
  \E p \in PiecesOf("index", e.List) : out[p].a[2] = << >> /\ out[p].a[5] = FieldID

\* C9: for a Rule with BaseGen the generator emits the collection type
\* declaration, and the methods IDs and Index if and only if the field model
\* has a field named ID; for a Rule without BaseGen it emits no type
\* declaration and no ID methods.
C9_BaseGeneration ==
  (Generated /\ oerr = NoErr) =>
    \A i \in DOMAIN rules :
      LET e == NewEntity(rules[i].EntityName, rules[i].UseListSuffix)
      IN  IF rules[i].BaseGen
          THEN /\ HasTypeDecl(e)
               /\ HasIDs(e) <=> FieldID \in DOMAIN FieldsOf(i)
               /\ HasIndex(e) <=> FieldID \in DOMAIN FieldsOf(i)
          ELSE /\ PiecesOf("type", e.List) = {}
               /\ ~HasIDs(e)
               /\ ~HasIndex(e)

\* News, with an embedded ID, got IDs and Index; Tag, without ID, got its
\* type declaration only
C9_Witness ==
  /\ Generated
  /\ oerr = NoErr
  /\ \E i, j \in DOMAIN rules :
       /\ rules[i].BaseGen /\ rules[j].BaseGen
       /\ FieldID \in DOMAIN FieldsOf(i)
       /\ FieldID \notin DOMAIN FieldsOf(j)
       /\ ~TypeMissing(j)
       /\ HasIDs(NewEntity(rules[i].EntityName, rules[i].UseListSuffix))
       /\ HasTypeDecl(NewEntity(rules[j].EntityName, rules[j].UseListSuffix))

\* C10 as stated: for every custom rule parsed as map/mapP, in any casing,
\* Generate emits a converter function, named New... unless the rule is
\* written in lower case, then new...  The generator emits none for a casing
\* other than Map, MapP, map and mapp.
C10_ConverterAnyCasing ==
  (Generated /\ oerr = NoErr) =>
    \A i \in DOMAIN rules : \A j \in DOMAIN rules[i].CustomRules :
      LET cr == rules[i].CustomRules[j]
          e == NewEntity(rules[i].EntityName, rules[i].UseListSuffix)
      IN  IsConverterName(cr.Name) =>
            \E p \in DOMAIN out :
              /\ out[p].k = "map"
              /\ out[p].a[2] = e.List
              /\ out[p].a[1] = (IF cr.Name = ToLower(cr.Name) THEN ToLower(StrNew) ELSE StrNew)

(***************************************************************************)
(* Properties of the converter function.  A piece "map" with the values    *)
(* << cmd, list, in, ret, m, name >> is the text                           *)
(*   func <cmd><list>(in []<in>) <ret> { return <m>(in, <cmd><name>) }     *)
(***************************************************************************)
\* the casings of Map and MapP for which generateByRule emits a converter
EmittedConverterNames ==
  { << "M", "a", "p" >>, << "M", "a", "p", "P" >>, << "m", "a", "p" >>, << "m", "a", "p", "p" >> }

\* cr is written in lower case
IsLowerCased(cr) == cr.Name \in { << "m", "a", "p" >>, << "m", "a", "p", "p" >> }

\* piece p of out is the converter of custom rule cr of rule r, up to the
\* name of the function
IsConverterOf(p, cr, r) ==
  /\ out[p].k = "map"
  /\ out[p].a[1] = (IF IsLowerCased(cr) THEN << "n", "e", "w" >> ELSE << "N", "e", "w" >>)
  /\ out[p].a[3] = (IF \E i \in DOMAIN cr.Arg : cr.Arg[i] = "." THEN cr.Arg
                    ELSE cr.Arg \o << "." >> \o r.EntityName)
  /\ out[p].a[4] = (IF r.BaseGen
                    THEN NewEntity(r.EntityName, r.UseListSuffix).List
                    ELSE << "[", "]" >> \o r.EntityName)
  /\ out[p].a[6] = r.EntityName

\* C11 as stated: the converter of a map/mapP rule on entity E is named
\* New<E> (new<E>), the name of the constructor it delegates to.  The
\* generator names it after the collection type.
C11_Original ==
  (Generated /\ oerr = NoErr) =>
    \A i \in DOMAIN rules : \A j \in DOMAIN rules[i].CustomRules :
      rules[i].CustomRules[j].Name \in EmittedConverterNames =>
        \E p \in DOMAIN out :
          /\ IsConverterOf(p, rules[i].CustomRules[j], rules[i])
          /\ out[p].a[2] = rules[i].EntityName

\* C11 amended: the converter emitted for a map/mapP rule on entity E is
\* named New<Collection> (new<Collection> for the lower-case casing), after
\* the collection type name of E; it takes a sequence of the argument type,
\* returns the collection type when E has base generation and []E when it
\* has not, and delegates to the constructor New<E> / new<E>.
C11_Converter ==
  (Generated /\ oerr = NoErr) =>
    /\ \A i \in DOMAIN rules : \A j \in DOMAIN rules[i].CustomRules :
         rules[i].CustomRules[j].Name \in EmittedConverterNames =>
           \E p \in DOMAIN out :
             /\ IsConverterOf(p, rules[i].CustomRules[j], rules[i])
             /\ out[p].a[2] = NewEntity(rules[i].EntityName, rules[i].UseListSuffix).List
             /\ out[p].a[2] # rules[i].EntityName
    /\ \A p \in DOMAIN out :
         out[p].k = "map" =>
           \E i \in DOMAIN rules : \E j \in DOMAIN rules[i].CustomRules :
             /\ rules[i].CustomRules[j].Name \in EmittedConverterNames
             /\ IsConverterOf(p, rules[i].CustomRules[j], rules[i])

\* a lower-case converter on an entity without base generation: new<List>
\* returning []E
C11_Witness ==
  /\ Generated
  /\ oerr = NoErr
  /\ \E i \in DOMAIN rules : \E j \in DOMAIN rules[i].CustomRules : \E p \in DOMAIN out :
       /\ ~rules[i].BaseGen
       /\ IsLowerCased(rules[i].CustomRules[j])
       /\ IsConverterOf(p, rules[i].CustomRules[j], rules[i])
       /\ out[p].a[4] = << "[", "]" >> \o rules[i].EntityName
       /\ out[p].a[2] = NewEntity(rules[i].EntityName, rules[i].UseListSuffix).List

(***************************************************************************)
(* Properties of the generated methods.                                    *)
(***************************************************************************)
\* the field that the called method reads
CalledField == IF call.k = "index" THEN call.a[5] ELSE call.a[4]

\* the values of that field in the collection
FieldValues == { ll[i][CalledField] : i \in DOMAIN ll }

\* the last position of the collection whose key is k
LastWith(k) ==
  CHOOSE i \in DOMAIN ll :
    ll[i][CalledField] = k /\ \A j \in DOMAIN ll : ll[j][CalledField] = k => j <= i

\* C12: Index() and IndexBy<Field>() return a map whose keys are exactly the
\* key-field values of the collection, each key mapped to the last element
\* that carries it.
C12_IndexLastWins ==
  (pc = "ran" /\ call.k = "index") =>
    /\ DOMAIN ret = FieldValues
    /\ \A k \in DOMAIN ret : ret[k] = ll[LastWith(k)]

\* two different elements with one title: IndexByTitle maps the title to the
\* later one
C12_Witness ==
  /\ pc = "ran"
  /\ call.k = "index"
  /\ call.a[2] = << "B", "y", "T", "i", "t", "l", "e" >>
  /\ \E i, j \in DOMAIN ll :
       /\ i < j
       /\ ll[i][sTitle] = ll[j][sTitle]
       /\ ll[i] # ll[j]
       /\ j = LastWith(ll[j][sTitle])
       /\ ret[ll[i][sTitle]] = ll[j]

\* C13: the plain field collector returns a sequence of the length of the
\* collection whose i-th value is the field value of the i-th element:
\* order is kept and so are duplicates.
C13_FieldCollector ==
  (pc = "ran" /\ call.k = "field") =>
    /\ Len(ret) = Len(ll)
    /\ \A i \in DOMAIN ll : ret[i] = ll[i][CalledField]

\* a collection with a value twice and values out of order is collected as it
\* stands
C13_Witness ==
  /\ pc = "ran"
  /\ call.k = "field"
  /\ Len(ll) = 3
  /\ ret = << 2, 1, 2 >>
  /\ \A i \in DOMAIN ll : ll[i][CalledField] = ret[i]

\* the values that a unique collector has to return: the field values, or
\* the elements of the field values of a slice field
UniqueValues ==
  IF call.k = "uniqueSlice"
  THEN UNION { { v[j] : j \in DOMAIN v } : v \in FieldValues }
  ELSE FieldValues

\* C14: both unique collectors return a sequence without repeated values
\* whose set of values is exactly the set of the field values (of the
\* elements of the field slices) of the collection; the order is not fixed.
C14_UniqueCollectors ==
  (pc = "ran" /\ call.k \in { "unique", "uniqueSlice" }) =>
    /\ \A i, j \in DOMAIN ret : i # j => ret[i] # ret[j]
    /\ { ret[i] : i \in DOMAIN ret } = UniqueValues
    /\ Len(ret) = Cardinality(UniqueValues)

\* field slices [2,1] and [2]: two values returned, and not in the order of
\* their first occurrence
C14_Witness ==
  /\ pc = "ran"
  /\ call.k = "uniqueSlice"
  /\ Len(ll) = 2
  /\ ll[1][CalledField] = << 2, 1 >>
  /\ ll[2][CalledField] = << 2 >>
  /\ ret = << 1, 2 >>

(***************************************************************************)
(* The claims about the replacement engine.                                *)
(***************************************************************************)
\* replaceFile has called Replacer.Generate on the injection lines
ReplaceRan == pc \in { "replaced", "refused" } /\ rpkg.loaded

\* the option lists of the grammar: none, full, full and json
OptFull == << ",", "f", "u", "l", "l" >>

OptFullJSON == << ",", "f", "u", "l", "l", ",", "j", "s", "o", "n" >>

GrammarOptions == { << >>, OptFull, OptFullJSON }

\* line l read as prefix, New or new, entity up to the "(" at i, first
\* argument up to j, options o, ")"
ReadsAs(l, i, j, o) ==
  /\ l[i] = "("
  /\ i > 13
  /\ j > i
  /\ SubSeq(l, 1, 9) = InjectionPrefix
  /\ SubSeq(l, 10, 12) \in { StrNew, StrNewLower }
  /\ \A k \in 13..(i - 1) : IsWordChar(l[k])
  /\ \A k \in (i + 1)..j : IsWordChar(l[k]) \/ l[k] = "."
  /\ SubSeq(l, j + 1, Len(l)) = o \o << ")" >>

\* the ReplaceRule that the grammar gives for such a reading
RuleRead(l, i, j, o) ==
  [Find |-> l, Replace |-> << >>, Cmd |-> SubSeq(l, 10, 12), Entity |-> SubSeq(l, 13, i - 1),
   Arg |-> IF "." \in Range(SubSeq(l, i + 1, j)) THEN SubSeq(l, i + 1, j)
           ELSE SubSeq(l, i + 1, j) \o << "." >> \o SubSeq(l, 13, i - 1),
   IsFull |-> o # << >>, WithJSON |-> o = OptFullJSON, Fields |-> << >>]

\* the rules that the grammar gives for line l
GrammarRules(l) ==
  { RuleRead(l, x[1], x[2], x[3]) :
      x \in { y \in { i \in DOMAIN l : l[i] = "(" }
                      \X { j \in DOMAIN l : j < Len(l) /\ l[j + 1] \in { ",", ")" } }
                      \X GrammarOptions : ReadsAs(l, y[1], y[2], y[3]) } }

\* C15: for every injection line that matches the grammar, ParseReplaceRule
\* succeeds with Find the line verbatim, Fields empty, Cmd and Entity as
\* written, and Arg the first argument, followed by "." and the entity when
\* it has no "."; every rule parsed has an Arg with a "." and the Find of
\* its line.
C15_ParseReplaceRule ==
  ReplaceRan =>
    /\ \A k \in DOMAIN injection : \A r \in GrammarRules(injection[k]) :
         ParseReplaceRule(injection[k]) = [r |-> r, err |-> NoErr]
    /\ \A k \in DOMAIN parsedRules :
         /\ "." \in Range(parsedRules[k].Arg)
         /\ parsedRules[k].Find = injection[k]
         /\ parsedRules[k].Fields = << >>

\* NewCall(db) and newUserSummary(db.User,full,json) parsed in one file
C15_Witness ==
  /\ ReplaceRan
  /\ injection = << R_NewCall, R_newUserSummary >>
  /\ GrammarRules(R_NewCall) # {}
  /\ GrammarRules(R_newUserSummary) # {}
  /\ Len(parsedRules) = 2
  /\ parsedRules[1].Cmd = StrNew
  /\ parsedRules[1].Entity = << "C", "a", "l", "l" >>
  /\ parsedRules[1].Arg = << "d", "b", ".", "C", "a", "l", "l" >>
  /\ ~parsedRules[1].IsFull
  /\ parsedRules[2].Cmd = StrNewLower
  /\ parsedRules[2].Entity = sUserSummary
  /\ parsedRules[2].Arg = << "d", "b", ".", "U", "s", "e", "r" >>
  /\ parsedRules[2].IsFull
  /\ parsedRules[2].WithJSON

\* the error that the argument tokens after the first call for: the first
\* token other than full and json is an unknown line; json without full
\* misses full
firstOther(toks) ==
  least({ i \in DOMAIN toks : toks[i] \notin { StrFull, StrJSON } })

tokensErr(toks, i) ==
  IF i # 0 THEN NewErr(ErrUnknownLine, << toks[i] >>)
  ELSE IF StrJSON \in Range(toks) /\ StrFull \notin Range(toks)
  THEN NewErr(ErrMissingArg, << StrFull >>)
  ELSE NoErr

matchErr(l, m) ==
  IF m = << >> THEN NewErr(ErrUnknownLine, << l >>)
  ELSE tokensErr(Tail(Split(m[4], ",")), firstOther(Tail(Split(m[4], ","))))

ExpectedErr(l) == matchErr(l, reNewFullNameArg(l))

\* the first injection line that has to be refused, 0 if there is none
FirstRefused == least({ k \in DOMAIN injection : ExpectedErr(injection[k]) # NoErr })

\* C16: a token after the first that is neither full nor json makes
\* ParseReplaceRule fail with "unknown line"; json without full, in any
\* order, makes it fail with "missing arg" naming full; every parsed rule
\* with WithJSON has IsFull; ParseReplaceRules returns one rule per line in
\* the order of the lines, or no rule and the error of the first line
\* refused.
C16_ArgumentTokens ==
  ReplaceRan =>
    /\ \A k \in DOMAIN injection :
         ParseReplaceRule(injection[k]).err = ExpectedErr(injection[k])
    /\ \A k \in DOMAIN parsedRules : parsedRules[k].WithJSON => parsedRules[k].IsFull
    /\ IF FirstRefused # 0
       THEN /\ parsedRules = << >>
            /\ replRules = << >>
            /\ rerr = ExpectedErr(injection[FirstRefused])
       ELSE /\ Len(parsedRules) = Len(injection)
            /\ \A k \in DOMAIN injection : parsedRules[k].Find = injection[k]

\* NewUser(db,json) before NewUser(db,all): no rule, and the error of the
\* first line
C16_Witness ==
  /\ ReplaceRan
  /\ injection = << R_NewUserJSON, R_NewUserAll >>
  /\ ParseReplaceRule(R_NewUserAll).err = NewErr(ErrUnknownLine, << << "a", "l", "l" >> >>)
  /\ parsedRules = << >>
  /\ rerr = NewErr(ErrMissingArg, << StrFull >>)

\* C17: the Cmd of every parsed ReplaceRule is exactly New or exactly new,
\* and an injection line whose command token is written in another casing is
\* refused as an unknown line.
C17_CmdCaseSensitive ==
  ReplaceRan =>
    /\ \A k \in DOMAIN parsedRules : parsedRules[k].Cmd \in { StrNew, StrNewLower }
    /\ \A k \in DOMAIN injection :
         SubSeq(injection[k], 10, 12) \notin { StrNew, StrNewLower }
           => ParseReplaceRule(injection[k]).err.kind = ErrUnknownLine

\* the rules applied independently to the original content c from position i
\* on: wherever the Find of a rule occurs in c, the Replace of that rule
\* (the first such rule of the list) takes its place
RECURSIVE independentFrom(_, _, _)
firstRuleAt(c, j, rr) == least({ k \in DOMAIN rr : matchAt(c, j, rr[k].Find) })

independentAt(c, i, rr, j, k) ==
  IF j = 0 THEN SubSeq(c, i, Len(c))
  ELSE SubSeq(c, i, j - 1) \o rr[k].Replace \o independentFrom(c, j + Len(rr[k].Find), rr)

independentNext(c, i, rr, j) ==
  independentAt(c, i, rr, j, IF j = 0 THEN 0 ELSE firstRuleAt(c, j, rr))

independentFrom(c, i, rr) ==
  independentNext(c, i, rr, least(UNION { matchesFrom(c, i, rr[k].Find) : k \in DOMAIN rr }))

\* C18: what replaceFile writes, applying one rule after the other, is the
\* original content with every rule applied independently to it; the Find
\* of no rule occurs in the Replace of any rule.
C18_IndependentRules ==
  pc = "replaced" =>
    /\ written = independentFrom(content, 1, replRules)
    /\ \A j, k \in DOMAIN replRules :
         matchesFrom(replRules[j].Replace, 1, replRules[k].Find) = {}

\* a file with two different directives, both replaced
C18_Witness ==
  /\ pc = "replaced"
  /\ Len(replRules) = 2
  /\ replRules[1].Find # replRules[2].Find
  /\ replRules[1].Replace # replRules[2].Replace
  /\ \A k \in DOMAIN replRules :
       /\ matchesFrom(content, 1, replRules[k].Find) # {}
       /\ matchesFrom(written, 1, replRules[k].Find) = {}
       /\ matchesFrom(written, 1, replRules[k].Replace) # {}

\* the types that the argument arg may resolve to in the loaded package:
\* the type named after the "." in every import whose path ends in what
\* stands before it
ResolvedTypes(arg) ==
  { imp.scope[Split(arg, ".")[2]] :
      imp \in { i \in rpkg.imports : /\ HasSuffix(i.PkgPath, Split(arg, ".")[1])
                                     /\ Split(arg, ".")[2] \in DOMAIN i.scope } }

\* the names of the exported fields among the flattened fields ff, in order
ExportedNames(ff) ==
  [i \in DOMAIN SelectSeq(ff, LAMBDA f : IsExported(f.Name)) |->
     SelectSeq(ff, LAMBDA f : IsExported(f.Name))[i].Name]

FieldNames(fields) == [i \in DOMAIN fields |-> fields[i].Name]

\* the full rules that cannot be generated: no type with a field resolves
Unresolvable ==
  { k \in DOMAIN parsedRules :
      /\ parsedRules[k].IsFull
      /\ \A t \in ResolvedTypes(parsedRules[k].Arg) : typeSliceFromType(t) = << >> }

\* C19: a plain rule is generated whatever its type resolves to, with no
\* Fields and the struct embedding Arg; a full rule whose type resolves to no
\* field makes Generate fail with "missing type" and return no rule; the
\* Fields of a full rule are the exported fields of the flattened fields of
\* the resolved type, in their order.
C19_TypeResolution ==
  (ReplaceRan /\ parsedRules # << >>) =>
    /\ (\A k \in DOMAIN parsedRules : ~parsedRules[k].IsFull) => pc = "replaced"
    /\ Unresolvable # {} =>
         /\ pc = "refused"
         /\ replRules = << >>
         /\ rerr.kind = ErrMissingType
         /\ \E k \in DOMAIN parsedRules : parsedRules[k].IsFull /\ rerr.msg = << parsedRules[k].Arg >>
    /\ pc = "replaced" =>
         \A k \in DOMAIN replRules :
           IF replRules[k].IsFull
           THEN \E t \in ResolvedTypes(replRules[k].Arg) :
                  /\ typeSliceFromType(t) # << >>
                  /\ FieldNames(replRules[k].Fields) = ExportedNames(typeSliceFromType(t))
                  /\ \A i \in DOMAIN replRules[k].Fields :
                       IsUpper(replRules[k].Fields[i].Name[1])
           ELSE /\ replRules[k].Fields = << >>
                /\ matchesFrom(replRules[k].Replace, 1,
                               T_Struct \o T_FieldIndent \o replRules[k].Arg \o << "\n", "}" >>) # {}

\* NewCall(db), whose type db.Call does not exist, beside NewUser(db.User,full):
\* the fields of the embedded Base come first and the unexported note is left
\* out
C19_Witness ==
  /\ pc = "replaced"
  /\ injection = << R_NewCall, R_NewUserFull >>
  /\ rpkg.imports = { ImportDB }
  /\ ResolvedTypes(replRules[1].Arg) = {}
  /\ replRules[1].Fields = << >>
  /\ sNote \in Range(FieldNames(typeSliceFromType(UserDB)))
  /\ FieldNames(replRules[2].Fields) = << FieldID, sStatusID, sCreatedAt >>

\* the json key of field name in a rule for entity: ID becomes the entity
\* followed by Id, the first character is lower-cased, and an ending ID
\* becomes Id
keyRenamed(entity, name) == IF name = FieldID THEN entity \o << "I", "d" >> ELSE name

keyLowered(t) == << RuneToLower(t[1]) >> \o SubSeq(t, 2, Len(t))

keyEnding(t) ==
  IF Len(t) >= 2 /\ SubSeq(t, Len(t) - 1, Len(t)) = FieldID
  THEN SubSeq(t, 1, Len(t) - 2) \o << "I", "d" >>
  ELSE t

ExpectedKey(entity, name) == keyEnding(keyLowered(keyRenamed(entity, name)))

\* C20: in a full rule with json the tag of every field is json:"key"
\* between back quotes, the key being the field name with ID replaced by
\* <Entity>Id, the first character lower-cased and an ending ID lower-cased
\* to Id; without json the tag of every field is empty.
C20_JSONTags ==
  pc = "replaced" =>
    \A k \in DOMAIN replRules : \A i \in DOMAIN replRules[k].Fields :
      replRules[k].Fields[i].Tag =
        IF replRules[k].WithJSON
        THEN << BackQuote >> \o << "j", "s", "o", "n", ":", "\"" >>
               \o ExpectedKey(replRules[k].Entity, replRules[k].Fields[i].Name)
               \o << "\"", BackQuote >>
        ELSE << >>

\* newUserSummary(db.User,full,json) beside NewUser(db.User,full): ID,
\* StatusID and CreatedAt get the keys userSummaryId, statusId and createdAt,
\* and no tag without json
C20_Witness ==
  /\ pc = "replaced"
  /\ injection = << R_newUserSummary, R_NewUserFull >>
  /\ rpkg.imports = { ImportDB }
  /\ FieldNames(replRules[1].Fields) = << FieldID, sStatusID, sCreatedAt >>
  /\ replRules[1].Fields[1].Tag = << BackQuote >> \o << "j", "s", "o", "n", ":", "\"", "u", "s", "e", "r", "S", "u", "m", "m", "a", "r", "y", "I", "d", "\"" >> \o << BackQuote >>
  /\ replRules[1].Fields[2].Tag = << BackQuote >> \o << "j", "s", "o", "n", ":", "\"", "s", "t", "a", "t", "u", "s", "I", "d", "\"" >> \o << BackQuote >>
  /\ replRules[1].Fields[3].Tag = << BackQuote >> \o << "j", "s", "o", "n", ":", "\"", "c", "r", "e", "a", "t", "e", "d", "A", "t", "\"" >> \o << BackQuote >>
  /\ Len(replRules[2].Fields) = 3
  /\ \A i \in DOMAIN replRules[2].Fields : replRules[2].Fields[i].Tag = << >>

(***************************************************************************)
(* The claims about the algebra of the parser and the rest of the command. *)
(***************************************************************************)
\* C21: merging the merged rules again, with the same list-suffix flag,
\* returns the same list: the same rules, each with the same BaseGen and
\* CustomRules, in the same order.
C21_MergeIdempotent ==
  pc \in { "parsed", "failed" } => mergeRules(rules, useListSuffix) = rules

\* rules merged from more parsed rules than entities, one of them with base
\* generation and custom rules
C21_Witness ==
  /\ pc = "parsed"
  /\ Len(rules) >= 2
  /\ Len(result) > Len(rules)
  /\ \E i \in DOMAIN rules : rules[i].BaseGen /\ Len(rules[i].CustomRules) >= 2
  /\ mergeRules(rules, useListSuffix) = rules

\* a Go identifier: letters, digits and underscores, not starting with a digit
IsIdentifier(s) ==
  /\ s # << >>
  /\ \A i \in DOMAIN s : IsWordChar(s[i])
  /\ ~IsDigit(s[1])

\* the texts that the separators c delimit in t
piecesOf(t, c) ==
  LET seps == { i \in DOMAIN t : t[i] = c } \cup { 0, Len(t) + 1 }
  IN  { SubSeq(t, ab[1] + 1, ab[2] - 1) :
          ab \in { x \in seps \X seps :
                     x[1] < x[2] /\ \A k \in seps : ~(x[1] < k /\ k < x[2]) } }

\* the entity names as one trimmed line writes them: the text before the
\* colon, or else every text between the commas
namesOfLine(t) ==
  IF t = << >> THEN {}
  ELSE IF Contains(t, ":")
  THEN { SubSeq(t, 1, (CHOOSE k \in DOMAIN t : t[k] = ":" /\ \A j \in 1..(k - 1) : t[j] # ":") - 1) }
  ELSE piecesOf(t, ",")

WrittenNames == UNION { namesOfLine(TrimSpace(lines[i])) : i \in DOMAIN lines }

\* C22 as stated: every rule of a successful ParseRules has an entity name
\* that is a valid identifier: not empty, no surrounding white space.
C22_Original ==
  pc = "parsed" => \A i \in DOMAIN rules : IsIdentifier(rules[i].EntityName)

\* C22, amended: ParseRules never checks an entity name.  The names of the
\* rules of a successful ParseRules are exactly the texts the lines write
\* before the colon or between the commas, the empty text and texts with
\* white space included; a name that is not an identifier is refused only
\* by a later Generate, which returns an error and no output.
C22_NamesAsWritten ==
  pc = "parsed" =>
    /\ { rules[i].EntityName : i \in DOMAIN rules } = WrittenNames
    /\ (ngen >= 1 /\ \E i \in DOMAIN rules : ~IsIdentifier(rules[i].EntityName))
         => (oerr # NoErr /\ out = << >>)

\* a successful ParseRules returned a rule with the empty name and one with
\* a space in its name, and Generate refused them with missing type
C22_Witness ==
  /\ pc = "parsed"
  /\ ngen >= 1
  /\ \E i \in DOMAIN rules : rules[i].EntityName = << >>
  /\ \E i \in DOMAIN rules : Contains(rules[i].EntityName, " ")
  /\ oerr.kind = ErrMissingType

\* a rule spec of the documented grammar: a bare identifier, or
\* Identifier(arg) with an argument of word characters and dots
IsRuleSpec(s) ==
  \/ IsIdentifier(s)
  \/ \E i \in DOMAIN s :
       /\ s[i] = "("
       /\ IsIdentifier(SubSeq(s, 1, i - 1))
       /\ i + 1 < Len(s)
       /\ s[Len(s)] = ")"
       /\ \A j \in (i + 1)..(Len(s) - 1) : IsWordChar(s[j]) \/ s[j] = "."

colonsOf(t) == { i \in DOMAIN t : t[i] = ":" }

\* the rule specs a line with one colon writes after it
specsOfLine(t) ==
  piecesOf(SubSeq(t, (CHOOSE k \in colonsOf(t) : TRUE) + 1, Len(t)), ",")

\* <Entity>:<ruleSpec>[,<ruleSpec>...]
IsCustomRuleForm(t) ==
  /\ Cardinality(colonsOf(t)) = 1
  /\ namesOfLine(t) \subseteq { n \in namesOfLine(t) : IsIdentifier(n) }
  /\ \A s \in specsOfLine(t) : IsRuleSpec(s)

\* the first line given to ParseRules, trimmed
FirstLine == IF lines = << >> THEN << >> ELSE TrimSpace(lines[1])

\* C23 as stated: a line with a colon that is not of the form
\* <Entity>:<ruleSpec>[,<ruleSpec>...] makes ParseRules fail with unknown
\* line; none is accepted.
C23_Original ==
  (Contains(FirstLine, ":") /\ ~IsCustomRuleForm(FirstLine))
    => perr = NewErr(ErrUnknownLine, << FirstLine, FirstLine >>)

\* C23, amended: a line with a colon fails with unknown line, naming the
\* line, exactly when it does not hold one colon.  With one colon nothing
\* about the entity or the rule specs is an unknown line: a rule spec that is
\* neither an identifier nor Identifier(arg) is taken whole as the name of a
\* field, ParseRules accepts it, and a later Generate returns an error.
C23_UnknownLine ==
  Contains(FirstLine, ":") =>
    /\ perr = NewErr(ErrUnknownLine, << FirstLine, FirstLine >>)
         <=> Cardinality(colonsOf(FirstLine)) # 1
    /\ (/\ pc = "parsed"
        /\ ngen >= 1
        /\ \E s \in specsOfLine(FirstLine) : ~IsRuleSpec(s))
         => (oerr # NoErr /\ out = << >>)

\* ParseRules accepted Tag:ID,(Name), the spec (Name) became the field of a
\* plain collector, and Generate refused it with missing field
C23_Witness ==
  /\ pc = "parsed"
  /\ ngen >= 1
  /\ pkg.loaded
  /\ Cardinality(colonsOf(FirstLine)) = 1
  /\ \E s \in specsOfLine(FirstLine) :
       /\ ~IsRuleSpec(s)
       /\ \E i \in DOMAIN rules : \E j \in DOMAIN rules[i].CustomRules :
            rules[i].CustomRules[j] = [Name |-> << >>, Field |-> s, Arg |-> << >>]
       /\ oerr = NewErr(ErrMissingField, << s, << "T", "a", "g" >> >>)

\* the text that follows Unique in the identifier of rule spec s: in the
\* whole spec, or in the identifier of the form identifier(arg)
uniqueRest(s) ==
  LET parens == { i \in DOMAIN s :
                    IsNameArg(s, SubSeq(s, 1, i - 1), SubSeq(s, i + 1, Len(s) - 1)) }
  IN  IF parens = {} THEN SubSeq(s, Len(CustomRuleUnique) + 1, Len(s))
      ELSE SubSeq(s, Len(CustomRuleUnique) + 1, (CHOOSE i \in parens : TRUE) - 1)

\* the custom rule a spec that begins with Unique stands for
uniqueRuleOf(s) == [Name |-> CustomRuleUnique, Field |-> uniqueRest(s), Arg |-> << >>]

\* the first line is a custom-rule line whose specs all begin with Unique
UniqueLine ==
  /\ Cardinality(colonsOf(FirstLine)) = 1
  /\ \A s \in specsOfLine(FirstLine) : HasPrefix(s, CustomRuleUnique)

\* C24: a rule spec that begins with Unique parses to a custom rule of kind
\* Unique whose Field is the rest of the identifier, the empty rest too, and
\* the parser never refuses it; a Unique rule whose Field is empty or not a
\* field of the entity is refused by Generate, with missing field when it is
\* the first failure.
C24_UniqueDeferred ==
  /\ UniqueLine =>
       ~(perr.kind \in { ErrUnknownLine, ErrMissingArg }
         /\ perr.msg[Len(perr.msg)] = FirstLine)
  /\ (Cardinality(colonsOf(FirstLine)) = 1 /\ result # << >>) =>
       \A j \in DOMAIN RuleSpecsOf(FirstLine) :
         HasPrefix(RuleSpecsOf(FirstLine)[j], CustomRuleUnique) =>
           result[1].CustomRules[j] = uniqueRuleOf(RuleSpecsOf(FirstLine)[j])
  /\ Generated =>
       \A i \in DOMAIN rules : \A j \in DOMAIN rules[i].CustomRules :
         (rules[i].CustomRules[j].Name = CustomRuleUnique /\ FieldMissing(i, j)) =>
           /\ out = << >>
           /\ oerr.kind \in { ErrMissingField, ErrMissingType }
           /\ NoFailureBefore(i, j) =>
                oerr = NewErr(ErrMissingField,
                              << rules[i].CustomRules[j].Field, rules[i].EntityName >>)

\* News:UniqueTitle,Unique was parsed to the unique rules of Title and of the
\* empty field, and Generate stopped at the second with missing field
C24_Witness ==
  /\ Generated
  /\ UniqueLine
  /\ FirstLine = L_NewsUnique
  /\ result[1].CustomRules =
       << [Name |-> CustomRuleUnique, Field |-> sTitle, Arg |-> << >>],
          [Name |-> CustomRuleUnique, Field |-> << >>, Arg |-> << >>] >>
  /\ oerr = NewErr(ErrMissingField, << << >>, sNews >>)
  /\ out = << >>

\* the lines of file that satisfy Class, with their first n characters removed
Recorded(Class(_), n) ==
  LET kept == SelectSeq(file, Class)
  IN  [i \in DOMAIN kept |-> SubSeq(kept[i], n + 1, Len(kept[i]))]

IsAssistantLine(l) == HasPrefix(l, AssistantPrefix)

IsInjectionLine(l) == HasPrefix(l, InjectionPrefix) /\ ~HasPrefix(l, AssistantPrefix)

IsNormalLine(l) ==
  /\ HasPrefix(l, ColgenPrefix)
  /\ ~HasPrefix(l, InjectionPrefix)
  /\ ~HasPrefix(l, AssistantPrefix)

\* C25: readFile puts every line of the file in at most one list, by the
\* prefix it starts with, the assistant prefix before the injection prefix
\* before the normal prefix: assistant and normal lines without their
\* prefix, injection lines whole, each list in file order, and a line with
\* none of the prefixes in no list.
C25_ReadFile ==
  file # << >> =>
    /\ cl.assistant = Recorded(IsAssistantLine, Len(AssistantPrefix))
    /\ cl.injection = Recorded(IsInjectionLine, 0)
    /\ cl.lines = Recorded(IsNormalLine, Len(ColgenPrefix))
    /\ Len(cl.assistant) + Len(cl.injection) + Len(cl.lines)
         = Cardinality({ i \in DOMAIN file :
                           \/ HasPrefix(file[i], AssistantPrefix)
                           \/ HasPrefix(file[i], InjectionPrefix)
                           \/ HasPrefix(file[i], ColgenPrefix) })

\* a file with the package clause, an assistant and an injection line was
\* read
C25_Witness ==
  /\ pc = "read"
  /\ file = << S_Package, S_AiTests, R_NewCall >>
  /\ cl.assistant = << << "t", "e", "s", "t", "s", "(", "c", "l", "a", "u", "d", "e", ")" >> >>
  /\ cl.injection = << R_NewCall >>
  /\ cl.lines = << >>

\* a run of main has read its file
MainRan == file # << >>

\* replaceFile has run to its end: the rules were generated and the file
\* was written with every rule applied
ReplaceWritten ==
  /\ rerr = NoErr
  /\ injection = cl.injection
  /\ content = fileBytes(file)
  /\ written = replaceRules(content, replRules)

\* nothing of replaceFile has happened
NoReplace == injection = << >> /\ rpkg = NilReplacerPkg /\ written = << >> /\ rerr = NoErr

\* nothing of generateFile has happened
NoGenerate == lines = << >> /\ result = << >> /\ ~pkg.loaded /\ ngen = 0 /\ gerr = NoErr

\* C29: in a run of main on a file with an assistant line only the first
\* assistant line is processed, and nothing is replaced or generated;
\* otherwise the replacement of the injection lines, when there are any, has
\* completed and the file is written before ParseRules, UsePackageDir and
\* Generate start, and generation is skipped exactly when the file has no
\* normal line.
C29_Order ==
  MainRan =>
    /\ cl.assistant # << >> =>
         /\ NoReplace /\ NoGenerate
         /\ pc \in { "read", "assisted" }
         /\ assisted = IF pc = "assisted" THEN << cl.assistant[1] >> ELSE << >>
    /\ cl.assistant = << >> =>
         /\ assisted = << >>
         /\ pc \in { "read", "replaced", "refused", "done", "parsed", "failed" }
         /\ pc \in { "replaced", "done", "parsed", "failed" } =>
              IF cl.injection # << >> THEN ReplaceWritten ELSE NoReplace
         /\ pc \in { "read", "replaced", "refused", "done" } => NoGenerate
         /\ pc \in { "parsed", "failed" } => (cl.lines # << >> /\ lines = cl.lines)
         /\ pc = "done" => cl.lines = << >>

\* the step main takes once it is past the injection block: it returns when
\* there is no normal line, and parses the normal lines otherwise
C29_Step ==
  (/\ MainRan
   /\ cl.assistant = << >>
   /\ IF cl.injection # << >> THEN pc = "replaced" ELSE pc = "read"
   /\ pc' # pc) =>
    IF cl.lines = << >> THEN pc' = "done" /\ NoGenerate'
    ELSE pc' \in { "parsed", "failed" } /\ lines' = cl.lines

C29_Pipeline == []C29_Order /\ [][C29_Step]_vars

\* after replaceFile wrote the file with the generated constructor, the
\* normal line of the same file was parsed and generated
C29_Witness ==
  /\ MainRan
  /\ cl.assistant = << >>
  /\ cl.injection = << R_NewCall >>
  /\ cl.lines = << L_NewsTag >>
  /\ ReplaceWritten
  /\ written # content
  /\ pc = "parsed"
  /\ ngen >= 1
  /\ oerr = NoErr

\* the entityField of field F of the entity of rules[i]: the last of that name
FieldEntry(i, F) ==
  LET eTypes == typeSliceFromType(lookupType(pkg, rules[i].EntityName))
  IN  eTypes[CHOOSE k \in DOMAIN eTypes :
               eTypes[k].Name = F /\ \A h \in DOMAIN eTypes : eTypes[h].Name = F => h <= k]

\* the declared type of that field is a slice type
DeclaredSlice(i, F) == HasPrefix(FieldEntry(i, F).FullType, << "[", "]" >>)

\* the unique collectors of field F in the buffer, for the collection list
UniqueKinds(list, F) ==
  { buf[p].k : p \in { q \in DOMAIN buf :
                         /\ buf[q].k \in { "unique", "uniqueSlice" }
                         /\ buf[q].a[1] = list
                         /\ buf[q].a[4] = F } }

\* C26: the unique collector generated for a field is the slice-flattening
\* one exactly when the declared type of the field is a slice, whatever the
\* element type of the slice and the import path it comes from.
C26_UniqueVariant ==
  Generated =>
    \A i \in DOMAIN rules : \A j \in DOMAIN rules[i].CustomRules :
      (/\ rules[i].CustomRules[j].Name = CustomRuleUnique
       /\ ~FieldMissing(i, j)
       /\ NoFailureBefore(i, j)) =>
        UniqueKinds(NewEntity(rules[i].EntityName, rules[i].UseListSuffix).List,
                    rules[i].CustomRules[j].Field)
          = { IF DeclaredSlice(i, rules[i].CustomRules[j].Field)
              THEN "uniqueSlice" ELSE "unique" }


\* Generate wrote the plain unique collector, with element type ex.Tag, for
\* the field Tags of News, which is declared []Tag in package m/ex, next to
\* the slice-flattening collector for TagIDs, declared []int
C26_PlainForSlice ==
  /\ Generated
  /\ oerr = NoErr
  /\ \E p \in DOMAIN buf :
       buf[p] = Piece("unique", << << "N", "e", "w", "s", "L", "i", "s", "t" >>, sTags, << "e", "x", ".", "T", "a", "g" >>, sTags >>)
  /\ \E p \in DOMAIN buf :
       buf[p] = Piece("uniqueSlice", << << "N", "e", "w", "s", "L", "i", "s", "t" >>, sTagIDs, << "i", "n", "t" >>, sTagIDs >>)

\* the name of the member that embedding the type arg declares: the type
\* name, after the last "." of arg
MemberName(arg) ==
  LET dots == { i \in DOMAIN arg : arg[i] = "." }
  IN  IF dots = {} THEN arg
      ELSE SubSeq(arg, (CHOOSE i \in dots : \A j \in dots : j <= i) + 1, Len(arg))

\* text holds part
HasText(text, part) ==
  \E k \in 1..(Len(text) - Len(part) + 1) : SubSeq(text, k, k + Len(part) - 1) = part

\* the struct of the rule embeds the type Arg and nothing else
EmbedsArg(r) == HasText(r.Replace, T_Struct \o T_FieldIndent \o r.Arg \o T_Func)

\* the key of the struct literal in the constructor of the rule is name
LiteralKey(r, name) == HasText(r.Replace, T_Open \o T_CopyIndent \o name \o T_StarIn \o T_End)

\* C27: the constructor of a plain rule initialises the embedded member of
\* the struct it declares: the key of its struct literal is the name of that
\* member, the type name after the "." of Arg, also when the Entity of the
\* directive is another name.
C27_PlainKey ==
  pc = "replaced" =>
    \A i \in DOMAIN replRules :
      ~replRules[i].IsFull =>
        /\ EmbedsArg(replRules[i])
        /\ LiteralKey(replRules[i], MemberName(replRules[i].Arg))

\* the plain rule of //colgen@NewRow(db.User) declares a struct Row that
\* embeds db.User, member User, and a constructor whose literal has the key
\* Row
C27_KeyIsEntity ==
  /\ pc = "replaced"
  /\ \E i \in DOMAIN replRules :
       /\ replRules[i].Find = R_NewRow
       /\ ~replRules[i].IsFull
       /\ replRules[i].Entity = << "R", "o", "w" >>
       /\ replRules[i].Arg = << "d", "b", ".", "U", "s", "e", "r" >>
       /\ EmbedsArg(replRules[i])
       /\ LiteralKey(replRules[i], << "R", "o", "w" >>)
       /\ ~LiteralKey(replRules[i], sUser)


\* when the Entity is the type name of Arg the key is the embedded member
C27_SameName ==
  pc = "replaced" =>
    \A i \in DOMAIN replRules :
      (~replRules[i].IsFull /\ replRules[i].Entity = MemberName(replRules[i].Arg)) =>
        /\ EmbedsArg(replRules[i])
        /\ LiteralKey(replRules[i], MemberName(replRules[i].Arg))

\* ParseRules has returned, and every line was accepted by the line grammar
LinesAccepted ==
  /\ pc \in { "parsed", "failed" }
  /\ ~pkg.loaded /\ gerr = NoErr /\ ngen = 0
  /\ perr.kind \notin { ErrUnknownLine, ErrMissingArg }

\* line k, trimmed
LineAt(k) == TrimSpace(lines[k])

\* line k is an entity list that names entity n
NamesInList(k, n) == IsListLine(LineAt(k)) /\ n \in piecesOf(LineAt(k), ",")

\* the custom rules that line k declares for entity n: those of its rule
\* specs, in order, when it is a custom-rule line of n
CustomOfLine(k, n) ==
  IF IsCustomLine(LineAt(k)) /\ namesOfLine(LineAt(k)) = { n }
  THEN [j \in DOMAIN RuleSpecsOf(LineAt(k)) |-> parseRuleSpec(RuleSpecsOf(LineAt(k))[j]).cr]
  ELSE << >>

\* the custom rules of entity n over all lines, in line order
CustomOfLines(n) == Concat([k \in DOMAIN lines |-> CustomOfLine(k, n)])

\* lines with lines k and k + 1 exchanged
Exchanged(k) ==
  [i \in DOMAIN lines |->
     IF i = k THEN lines[k + 1] ELSE IF i = k + 1 THEN lines[k] ELSE lines[i]]

\* ParseRules returns r as it returned in this state
SameParse(r) == r.rules = rules /\ r.err = perr

\* C28: for lines accepted by the line grammar, the merged rule of an entity
\* has BaseGen exactly when an entity-list line names the entity, before or
\* after its custom-rule lines; its CustomRules are the custom rules of its
\* custom-rule lines concatenated in line order, none dropped or
\* de-duplicated; and exchanging two neighbouring lines that name different
\* entities does not change what ParseRules returns.
C28_OrderIndependent ==
  LinesAccepted =>
    /\ \A i \in DOMAIN rules :
         /\ rules[i].BaseGen <=> \E k \in DOMAIN lines : NamesInList(k, rules[i].EntityName)
         /\ rules[i].CustomRules = CustomOfLines(rules[i].EntityName)
    /\ \A k \in 1..(Len(lines) - 1) :
         namesOfLine(LineAt(k)) \cap namesOfLine(LineAt(k + 1)) = {} =>
           SameParse(ParseRules(Exchanged(k), useListSuffix))

\* the custom-rule line of an entity came before the entity list that names
\* it, and its merged rule has base generation and the custom rules; the two
\* lines of another list name different entities
C28_Witness ==
  /\ pc = "parsed"
  /\ Len(lines) = 2
  /\ IsCustomLine(LineAt(1))
  /\ \E i \in DOMAIN rules :
       /\ namesOfLine(LineAt(1)) = { rules[i].EntityName }
       /\ NamesInList(2, rules[i].EntityName)
       /\ rules[i].BaseGen
       /\ Len(rules[i].CustomRules) >= 2
       /\ rules[i].CustomRules = CustomOfLine(1, rules[i].EntityName)

\* a is the start of b
StartsWith(b, a) == Len(a) <= Len(b) /\ SubSeq(b, 1, Len(a)) = a

\* the header comments in the pieces b
HeaderCount(b) == Cardinality({ p \in DOMAIN b : b[p].k = "comment" })

\* what one call of Generate does to the buffer and returns
C30_Step ==
  /\ StartsWith(buf', buf)
  /\ ngen' = ngen + 1 =>
       /\ StartsWith(SubSeq(buf', Len(buf) + 1, Len(buf')),
                     genHead(settings.pkgName, settings.imports) \o << NL >>)
       /\ oerr' = NoErr => (out' = buf' /\ StartsWith(out', out))
       /\ oerr' # NoErr => out' = << >>

\* the buffer after the calls of Generate so far
C30_Buffer ==
  /\ HeaderCount(buf) = ngen
  /\ ngen = 0 => buf = << >>
  /\ (Generated /\ oerr = NoErr) => (out = buf /\ HeaderCount(out) = ngen)
  /\ (Generated /\ oerr # NoErr) => (out = << >> /\ Len(buf) > 0)

\* C30: the buffer of a Generator only grows: every Generate appends the
\* header and the text of its rules to what the buffer held, so the bytes of
\* a second successful Generate start with the bytes of the first and hold
\* the header twice, and after a Generate that failed the buffer still holds
\* the text written before the failing rule.
C30_AppendOnly == []C30_Buffer /\ [][C30_Step]_vars

\* the second Generate on one Generator succeeded: its bytes are the whole
\* buffer, with two headers, the second after the text of the first call
C30_Witness ==
  /\ pc = "parsed"
  /\ ngen = 2
  /\ oerr = NoErr
  /\ out = buf
  /\ HeaderCount(out) = 2
  /\ \E n \in 1..(Len(out) - 1) :
       /\ out[n + 1].k = "comment"
       /\ \E p \in 1..n : out[p].k = "type"
       /\ SubSeq(out, n + 1, Len(out)) = SubSeq(out, 1, n)

=============================================================================
